---- MODULE Spec2Model ----
(***************************************************************************)
(* Neon-puck: the simulation loop, the drag sessions and the match state   *)
(* of src/main.js as a state machine.                                      *)
(*                                                                         *)
(* Numbers.  JavaScript numbers are modelled in fixed point: a length of   *)
(* one CSS pixel is Unit model units, products and quotients are rounded   *)
(* toward zero (Quot).  A NaN is carried by the puck's nan field: "no"     *)
(* (all four fields finite), "v" (vx and vy are NaN), "xv" (x, y, vx and   *)
(* vy are NaN).  Every comparison with a NaN is false, as in the code.     *)
(* null is the empty tuple Null, a present value v is the tuple <<v>>.     *)
(***************************************************************************)
EXTENDS Integers, Sequences, FiniteSets, TLC

\* ------------------------------------------------------------- constants
PUCK_RADIUS == 15
HOLE_WIDTH == 100
WALL_THICKNESS == 20
\* FRICTION = 0.995 = FRICTION_NUM / FRICTION_DEN
FRICTION_NUM == 995
FRICTION_DEN == 1000
\* BOUNCE_DAMPING = 0.9 = BOUNCE_NUM / BOUNCE_DEN
BOUNCE_NUM == 9
BOUNCE_DEN == 10
MAX_SPEED == 50
\* DRAG_FORCE = 0.30 = DRAG_NUM / DRAG_DEN
DRAG_NUM == 3
DRAG_DEN == 10
\* the debounce delay of the win condition, in ms
WIN_DELAY == 800
\* sub-steps of one frame
STEPS == 5
\* pucks spawned per side
PER_SIDE == 5
\* the pick radius of a press is PICK_FACTOR * PUCK_RADIUS
PICK_FACTOR == 3
\* clearance from the midline kept by a dragged puck, beyond its radius
DRAG_MARGIN == 10

\* model units per pixel
Unit == 10

\* ---------------------------------------------------------------- bounds
\* Spec: pointer events delivered before the run stops, and the time it stops at, ms
MaxInputs == 6
MaxTime == 400
\* SpecMatch: the same
MaxMatchInputs == 2
MaxMatchTime == 1800
\* SpecPick: the same
MaxPickInputs == 4
MaxPickTime == 800
\* SpecLevels: the same
MaxLevelInputs == 4
MaxLevelTime == 6300
\* SpecHold: the same
MaxLadderInputs == 6
MaxLadderTime == 10800

MaxAnimatedInputs == 6
MaxAnimatedTime == 9900

MaxStackInputs == 7
MaxStackTime == 400

MaxRestTime == 2000

MaxHoldInputs == 5
MaxHoldTime == 1800

VARIABLES
    width, height,      \* arena size, in pixels
    gapOffset,          \* GAP_OFFSET, fixed at load, in pixels
    gameState,          \* "start", "playing", "won"
    winner,             \* "null", "top", "bottom"
    pucks,              \* 0..n-1 -> [x, y, vx, vy, nan]
    activeTouches,      \* pointer id -> session
    winTimestamp,       \* Null or <<ms>>
    topWins, bottomWins, currentLevel,
    now,                \* Date.now(), ms
    rng,                \* state of the generator behind Math.random()
    topCount, bottomCount,  \* update()'s tally of the last frame that ran
    ev,                 \* the handler that ran last and what it found
    inputs,             \* pointer events delivered so far
    transition          \* the level-transition state of the animated version

vars == <<width, height, gapOffset, gameState, winner, pucks, activeTouches,
          winTimestamp, topWins, bottomWins, currentLevel, now, rng,
          topCount, bottomCount, ev, inputs, transition>>

\* ------------------------------------------------------------ arithmetic
Null == << >>
Some(v) == <<v>>

Abs(a) == IF a < 0 THEN -a ELSE a

\* a / b of the code, rounded toward zero
Quot(a, b) == IF (a >= 0) = (b > 0) THEN Abs(a) \div Abs(b) ELSE -(Abs(a) \div Abs(b))

Min(a, b) == IF a < b THEN a ELSE b
Max(a, b) == IF a > b THEN a ELSE b

RECURSIVE SqrtSearch(_, _, _)
SqrtSearch(n, lo, hi) ==
    IF lo >= hi THEN lo
    ELSE LET mid == (lo + hi + 1) \div 2
         IN  IF mid * mid <= n THEN SqrtSearch(n, mid, hi)
             ELSE SqrtSearch(n, lo, mid - 1)

\* Math.sqrt, rounded down to a model unit
Sqrt(n) == SqrtSearch(n, 0, 46340)

\* lengths in model units
R == PUCK_RADIUS * Unit
W == width * Unit
H == height * Unit
wallY == (height * Unit) \div 2
halfWallThick == (WALL_THICKNESS * Unit) \div 2
topBandY == (height * Unit * 15) \div 100
bottomBandY == (height * Unit * 85) \div 100

\* -------------------------------------------------------------- pointers
Mouse == <<"mouse", 0>>
Touch(i) == <<"touch", i>>
Touches == {Touch(0)}
Pointers == {Mouse} \cup Touches

NoAnchor == [set |-> FALSE, x |-> 0, y |-> 0]
Anchor(ax, ay) == [set |-> TRUE, x |-> ax, y |-> ay]

NumPucks == Cardinality(DOMAIN pucks)

\* the loops "for (const touch of activeTouches.values()) if (touch.puckIndex === index)"
isDragged(touches, index) == \E id \in DOMAIN touches : touches[id].puckIndex = index


\* ---------------------------------------------------------- Math.random
RNG_MUL == 75
RNG_INC == 74
RNG_MOD == 65537

\* the states the generator may be in at load
Seeds == {1, 2}

\* the generator's next state; Math.random() is that state / RNG_MOD, in [0, 1)
RandNext(s) == (s * RNG_MUL + RNG_INC) % RNG_MOD

RECURSIVE RandAt(_, _)
\* the state after k calls of Math.random()
RandAt(s, k) == IF k = 0 THEN s ELSE RandNext(RandAt(s, k - 1))

\* Math.random() * span - span / 2, for the k-th call after state s, in model units
Jitter(s, k, span) == Quot(RandAt(s, k) * span * Unit, RNG_MOD) - (span * Unit) \div 2

\* ------------------------------------------------------------- startGame
\* the puck pushed by the i-th iteration of the two spawn loops
SpawnPuck(i) ==
    [x   |-> (width * Unit) \div 2 + Jitter(rng, 2 * i + 1, 200),
     y   |-> (IF i < PER_SIDE THEN (height * Unit) \div 4 ELSE (height * Unit * 3) \div 4)
             + Jitter(rng, 2 * i + 2, 100),
     vx  |-> 0,
     vy  |-> 0,
     nan |-> "no"]

\* faulty variant of startGame: "winTimestamp = null" is missing
startGame_StaleTimer ==
    [pucks         |-> [i \in 0 .. 2 * PER_SIDE - 1 |-> SpawnPuck(i)],
     activeTouches |-> Null,
     gameState     |-> "playing",
     winner        |-> "null",
     winTimestamp  |-> winTimestamp,
     currentLevel  |-> topWins + bottomWins,
     rng           |-> RandAt(rng, 4 * PER_SIDE)]

\* faulty variant of startGame: "activeTouches.clear()" is missing
startGame_KeepSessions ==
    [pucks         |-> [i \in 0 .. 2 * PER_SIDE - 1 |-> SpawnPuck(i)],
     activeTouches |-> activeTouches,
     gameState     |-> "playing",
     winner        |-> "null",
     winTimestamp  |-> Null,
     currentLevel  |-> topWins + bottomWins,
     rng           |-> RandAt(rng, 4 * PER_SIDE)]

\* faulty variant of startGame: "pucks = []" is missing, the roster grows
startGame_Append ==
    [pucks         |-> [i \in 0 .. NumPucks + 2 * PER_SIDE - 1 |->
                           IF i < NumPucks THEN pucks[i] ELSE SpawnPuck(i - NumPucks)],
     activeTouches |-> Null,
     gameState     |-> "playing",
     winner        |-> "null",
     winTimestamp  |-> Null,
     currentLevel  |-> topWins + bottomWins,
     rng           |-> RandAt(rng, 4 * PER_SIDE)]

\* faulty variant of startGame: "winner = null" is missing
startGame_KeepWinner ==
    [pucks         |-> [i \in 0 .. 2 * PER_SIDE - 1 |-> SpawnPuck(i)],
     activeTouches |-> Null,
     gameState     |-> "playing",
     winner        |-> winner,
     winTimestamp  |-> Null,
     currentLevel  |-> topWins + bottomWins,
     rng           |-> RandAt(rng, 4 * PER_SIDE)]

startGame ==
    [pucks         |-> [i \in 0 .. 2 * PER_SIDE - 1 |-> SpawnPuck(i)],
     activeTouches |-> Null,
     gameState     |-> "playing",
     winner        |-> "null",
     winTimestamp  |-> Null,
     currentLevel  |-> topWins + bottomWins,
     rng           |-> RandAt(rng, 4 * PER_SIDE)]

\* ----------------------------------------------------------- handleStart
\* faulty variant of IsHit: the "already dragged" loop is missing
IsHit_NoDragCheck(touches, ps, index, x, y) ==
    /\ ps[index].nan # "xv"
    /\ LET dx == ps[index].x - x
           dy == ps[index].y - y
       IN  dx * dx + dy * dy < (PICK_FACTOR * R) * (PICK_FACTOR * R)

\* the predicate of pucks.findIndex in handleStart
IsHit(touches, ps, index, x, y) ==
    /\ ~isDragged(touches, index)
    /\ ps[index].nan # "xv"
    /\ LET dx == ps[index].x - x
           dy == ps[index].y - y
       IN  dx * dx + dy * dy < (PICK_FACTOR * R) * (PICK_FACTOR * R)

\* pucks.findIndex(...): the first hit, -1 when there is none
clickedIndex(touches, ps, x, y) ==
    LET hits == {i \in DOMAIN ps : IsHit(touches, ps, i, x, y)}
    IN  IF hits = {} THEN -1 ELSE CHOOSE i \in hits : \A j \in hits : i <= j

NewSession(index, x, y, side) ==
    [puckIndex |-> index, startX |-> x, startY |-> y,
     currentX |-> x, currentY |-> y, anchor |-> NoAnchor, side |-> side]

\* faulty variant of Claim: "puck.vx = 0; puck.vy = 0" is missing
Claim_KeepVelocity(x, y, id) ==
    LET index == clickedIndex(activeTouches, pucks, x, y)
    IN  IF index = -1 THEN [did |-> "missed", puck |-> -1,
                            activeTouches |-> activeTouches, pucks |-> pucks]
        ELSE LET isClickTop == y < wallY
                 isPuckTop == pucks[index].y < wallY
             IN  IF isClickTop = isPuckTop
                 THEN [did |-> "claimed", puck |-> index,
                       activeTouches |-> activeTouches @@
                           (id :> NewSession(index, x, y,
                                             IF isClickTop THEN "top" ELSE "bottom")),
                       pucks |-> pucks]
                 ELSE [did |-> "wrongside", puck |-> index,
                       activeTouches |-> activeTouches, pucks |-> pucks]

\* handleStart while playing, for a pointer without a session:
\* the session map and the roster it leaves
Claim(x, y, id) ==
    LET index == clickedIndex(activeTouches, pucks, x, y)
    IN  IF index = -1 THEN [did |-> "missed", puck |-> -1,
                            activeTouches |-> activeTouches, pucks |-> pucks]
        ELSE LET isClickTop == y < wallY
                 \* a NaN y compares false
                 isPuckTop == pucks[index].y < wallY
             IN  IF isClickTop = isPuckTop
                 THEN [did |-> "claimed", puck |-> index,
                       activeTouches |-> activeTouches @@
                           (id :> NewSession(index, x, y,
                                             IF isClickTop THEN "top" ELSE "bottom")),
                       pucks |-> [pucks EXCEPT ![index].vx = 0, ![index].vy = 0,
                                               ![index].nan = "no"]]
                 ELSE [did |-> "wrongside", puck |-> index,
                       activeTouches |-> activeTouches, pucks |-> pucks]

\* ------------------------------------------------------------ handleMove
\* faulty variant of MovedPuck: the "Constrain to the active side" clamp is missing
MovedPuck_Unclamped(touch, puck, x, y) == [puck EXCEPT !.x = x, !.y = y]

\* the session and the puck after handleMove(x, y, id), for a pointer with a session
MovedPuck(touch, puck, x, y) ==
    [puck EXCEPT !.x = x,
                 !.y = IF touch.side = "top"
                       THEN Min(y, wallY - R - DRAG_MARGIN * Unit)
                       ELSE Max(y, wallY + R + DRAG_MARGIN * Unit)]

\* faulty variant of MovedTouch: "if (!touch.anchor)" is missing, the anchor
\* follows the puck
MovedTouch_Follow(touch, puck, x, y) ==
    LET p == MovedPuck(touch, puck, x, y)
        engaged == IF touch.side = "top" THEN p.y < topBandY ELSE p.y > bottomBandY
        bandY == IF touch.side = "top" THEN topBandY ELSE bottomBandY
    IN  [touch EXCEPT !.currentX = x, !.currentY = y,
                      !.anchor = IF engaged THEN Anchor(p.x, bandY) ELSE NoAnchor]

MovedTouch(touch, puck, x, y) ==
    LET p == MovedPuck(touch, puck, x, y)
        engaged == IF touch.side = "top" THEN p.y < topBandY ELSE p.y > bottomBandY
        bandY == IF touch.side = "top" THEN topBandY ELSE bottomBandY
    IN  [touch EXCEPT !.currentX = x, !.currentY = y,
                      !.anchor = IF engaged
                                 THEN (IF touch.anchor.set THEN touch.anchor
                                       ELSE Anchor(p.x, bandY))
                                 ELSE NoAnchor]

\* faulty variant of handleMove: the session is not looked up by id, the
\* move drags the puck of the oldest session (the single active puck of the
\* first version)
handleMove_AnySession(x, y, id) ==
    IF activeTouches = Null
    THEN [pucks |-> pucks, activeTouches |-> activeTouches]
    ELSE LET first == CHOOSE p \in DOMAIN activeTouches :
                          \A q \in DOMAIN activeTouches :
                              activeTouches[p].puckIndex <= activeTouches[q].puckIndex
             touch == activeTouches[first]
             puck == pucks[touch.puckIndex]
         IN  [pucks |-> [pucks EXCEPT ![touch.puckIndex] = MovedPuck(touch, puck, x, y)],
              activeTouches |-> [activeTouches EXCEPT ![first] = MovedTouch(touch, puck, x, y)]]

handleMove(x, y, id) ==
    IF id \notin DOMAIN activeTouches
    THEN [pucks |-> pucks, activeTouches |-> activeTouches]
    ELSE LET touch == activeTouches[id]
             puck == pucks[touch.puckIndex]
         IN  [pucks |-> [pucks EXCEPT ![touch.puckIndex] = MovedPuck(touch, puck, x, y)],
              activeTouches |-> [activeTouches EXCEPT ![id] = MovedTouch(touch, puck, x, y)]]

\* ------------------------------------------------------------- handleEnd
\* faulty variant of Shoot: the "Cap speed" block is missing
Shoot_Uncapped(anchor, puck) ==
    [vx |-> Quot((anchor.x - puck.x) * DRAG_NUM, DRAG_DEN),
     vy |-> Quot((anchor.y - puck.y) * DRAG_NUM, DRAG_DEN)]

\* faulty variant of Shoot: the launch points from the anchor to the puck
Shoot_Reversed(anchor, puck) ==
    LET vx == Quot((puck.x - anchor.x) * DRAG_NUM, DRAG_DEN)
        vy == Quot((puck.y - anchor.y) * DRAG_NUM, DRAG_DEN)
        sq == vx * vx + vy * vy
        cap == MAX_SPEED * Unit
    IN  IF sq > cap * cap
        THEN LET speed == Sqrt(sq)
             IN  [vx |-> Quot(vx * cap, speed), vy |-> Quot(vy * cap, speed)]
        ELSE [vx |-> vx, vy |-> vy]

\* the "Shoot" branch: the launch velocity, capped at MAX_SPEED
Shoot(anchor, puck) ==
    LET vx == Quot((anchor.x - puck.x) * DRAG_NUM, DRAG_DEN)
        vy == Quot((anchor.y - puck.y) * DRAG_NUM, DRAG_DEN)
        sq == vx * vx + vy * vy
        cap == MAX_SPEED * Unit
    IN  IF sq > cap * cap
        THEN LET speed == Sqrt(sq)
             IN  [vx |-> Quot(vx * cap, speed), vy |-> Quot(vy * cap, speed)]
        ELSE [vx |-> vx, vy |-> vy]

Released(touch, puck) ==
    IF touch.anchor.set
    THEN LET v == Shoot(touch.anchor, puck)
         IN  [puck EXCEPT !.vx = v.vx, !.vy = v.vy, !.nan = "no"]
    ELSE puck

\* faulty variant of handleEnd: "activeTouches.delete(id)" is missing
handleEnd_KeepSession(id) ==
    IF id \notin DOMAIN activeTouches
    THEN [pucks |-> pucks, activeTouches |-> activeTouches]
    ELSE LET touch == activeTouches[id]
         IN  [pucks |-> [pucks EXCEPT ![touch.puckIndex] = Released(touch, @)],
              activeTouches |-> activeTouches]

handleEnd(id) ==
    IF id \notin DOMAIN activeTouches
    THEN [pucks |-> pucks, activeTouches |-> activeTouches]
    ELSE LET touch == activeTouches[id]
         IN  [pucks |-> [pucks EXCEPT ![touch.puckIndex] = Released(touch, @)],
              activeTouches |-> [p \in DOMAIN activeTouches \ {id} |-> activeTouches[p]]]


\* -------------------------------------------------------- getWallSegments
\* pi, in milliradians
PI_MRAD == 3142

\* Math.sin of an angle in [0, pi] milliradians, in thousandths
\* (Bhaskara's rational approximation, error below 0.002)
SinHalf(a) ==
    LET p == (a * (PI_MRAD - a)) \div 100
    IN  (16000 * p) \div ((5 * PI_MRAD * PI_MRAD) \div 100 - 4 * p)

\* Math.sin of an angle >= 0 in milliradians, in thousandths
Sin(a) ==
    LET r == a % (2 * PI_MRAD)
    IN  IF r <= PI_MRAD THEN SinHalf(r) ELSE -SinHalf(r - PI_MRAD)

\* getOffset(speedFactor, rangeFactor, phase) at Date.now() = t, in model units;
\* the factors are given in hundredths, the phase in milliradians
getOffset(t, speedFactor, rangeFactor, phase) ==
    LET \* speed = 0.0015 * (375 / width) * speedFactor, angle = t * speed + phase
        angle == Quot(Quot(t * 5625, 10) * speedFactor, width * 100) + phase
        range == Quot(width * Unit * rangeFactor, 100)
    IN  Quot(Sin(angle) * range, 1000)

Seg(a, b) == [start |-> a, end |-> b]

\* the wall segments at Date.now() = t, in model units
getWallSegments(t) ==
    LET level == currentLevel + 1
        center == (width * Unit) \div 2
        halfHole == (HOLE_WIDTH * Unit) \div 2
    IN  IF level = 1
        THEN << Seg(0, center - halfHole), Seg(center + halfHole, W) >>
        ELSE IF level = 2 \/ level = 5
        THEN LET offset == getOffset(t, 100, 22, 0)
             IN  << Seg(0, center + offset - halfHole),
                    Seg(center + offset + halfHole, W) >>
        ELSE IF level = 3
        THEN LET hole1Center == center - gapOffset * Unit
                 hole2Center == center + gapOffset * Unit
             IN  << Seg(0, hole1Center - halfHole),
                    Seg(hole1Center + halfHole, hole2Center - halfHole),
                    Seg(hole2Center + halfHole, W) >>
        ELSE \* level = 4 or level >= 6
             LET h1 == center + getOffset(t, 35, 35, 0)
                 h2 == center + getOffset(t, 65, 35, PI_MRAD)
                 leftHole == Min(h1, h2)
                 rightHole == Max(h1, h2)
             IN  << Seg(0, leftHole - halfHole),
                    Seg(leftHole + halfHole, rightHole - halfHole),
                    Seg(rightHole + halfHole, W) >>

\* ------------------------------------------------------------ getObstacles
Obs(ox, oy, r) == [x |-> ox, y |-> oy, radius |-> r]

\* faulty variant of getObstacles: the level rule of the previous version
\* (obstacles after two and three wins only)
getObstacles_Early ==
    LET level == currentLevel + 1
        radius == Quot(halfWallThick * 13, 10)
        center == (width * Unit) \div 2
        topObsY == (wallY + topBandY) \div 2
        bottomObsY == (wallY + bottomBandY) \div 2
    IN  IF level >= 3 /\ level <= 4
        THEN << Obs(center, topObsY, radius), Obs(center, bottomObsY, radius) >>
        ELSE << >>

getObstacles ==
    LET level == currentLevel + 1
        radius == Quot(halfWallThick * 13, 10)
        center == (width * Unit) \div 2
        topObsY == (wallY + topBandY) \div 2
        bottomObsY == (wallY + bottomBandY) \div 2
    IN  IF level >= 5
        THEN << Obs(center, topObsY, radius), Obs(center, bottomObsY, radius) >>
        ELSE << >>

\* ------------------------------------------------------ checkCapCollision
Damp(v) == Quot(v * BOUNCE_NUM, BOUNCE_DEN)

\* faulty variant of checkCapCollision: nx = dx / dist and ny = dy / dist, no
\* safeDist (the function of the earlier versions); at distance 0 both are
\* 0 / 0 and every field of the puck becomes NaN
checkCapCollision_NoSafeDist(puck, capX, capY, capRadius) ==
    LET dx == puck.x - capX
        dy == puck.y - capY
        sq == dx * dx + dy * dy
        radiusSum == capRadius + R
    IN  IF sq < radiusSum * radiusSum
        THEN IF sq = 0
             THEN [puck EXCEPT !.nan = "xv", !.vx = 0, !.vy = 0]
             ELSE LET dist == Sqrt(sq * 10000)
                      overlap == radiusSum * 100 - dist
                      rx == Quot(2 * (puck.vx * dx + puck.vy * dy) * dx, sq)
                      ry == Quot(2 * (puck.vx * dx + puck.vy * dy) * dy, sq)
                  IN  [puck EXCEPT !.x = @ + Quot(dx * overlap, dist),
                                   !.y = @ + Quot(dy * overlap, dist),
                                   !.vx = Damp(@ - rx),
                                   !.vy = Damp(@ - ry)]
        ELSE puck

checkCapCollision(puck, capX, capY, capRadius) ==
    LET dx == puck.x - capX
        dy == puck.y - capY
        sq == dx * dx + dy * dy
        radiusSum == capRadius + R
    IN  IF sq < radiusSum * radiusSum
        THEN IF sq = 0
             THEN \* safeDist = 1e-6: nx = ny = 0, the puck is not moved
                  [puck EXCEPT !.vx = Damp(@), !.vy = Damp(@)]
             ELSE LET \* dist and overlap in hundredths of a model unit; a
                      \* distance of one model unit or more exceeds 1e-6
                      dist == Sqrt(sq * 10000)
                      safeDist == dist
                      overlap == radiusSum * 100 - dist
                      \* 2 * dp * nx and 2 * dp * ny
                      rx == Quot(2 * (puck.vx * dx + puck.vy * dy) * dx, sq)
                      ry == Quot(2 * (puck.vx * dx + puck.vy * dy) * dy, sq)
                  IN  [puck EXCEPT !.x = @ + Quot(dx * overlap, safeDist),
                                   !.y = @ + Quot(dy * overlap, safeDist),
                                   !.vx = Damp(@ - rx),
                                   !.vy = Damp(@ - ry)]
        ELSE puck


\* ----------------------------------------------------------------- update
\* "Movement": one sub-step of integration
Integrate(puck) ==
    [puck EXCEPT !.x = @ + Quot(puck.vx, STEPS), !.y = @ + Quot(puck.vy, STEPS)]

\* "Wall Collisions": the four arena edges, in the code's order
Boundary(puck) ==
    LET a == IF puck.x - R < 0 THEN [puck EXCEPT !.x = R, !.vx = -Damp(@)] ELSE puck
        b == IF a.x + R > W THEN [a EXCEPT !.x = W - R, !.vx = -Damp(@)] ELSE a
        c == IF b.y - R < 0 THEN [b EXCEPT !.y = R, !.vy = -Damp(@)] ELSE b
    IN  IF c.y + R > H THEN [c EXCEPT !.y = H - R, !.vy = -Damp(@)] ELSE c

\* faulty variant of WallRect: the puck is always put above the band
WallRect_AlwaysUp(puck, segment) ==
    IF /\ puck.y + R >= wallY - halfWallThick
       /\ puck.y - R <= wallY + halfWallThick
       /\ puck.x >= segment.start
       /\ puck.x <= segment.end
    THEN [puck EXCEPT !.y = wallY - halfWallThick - R - Unit, !.vy = -Damp(@)]
    ELSE puck

\* "Rectangular parts" of one wall segment
WallRect(puck, segment) ==
    IF /\ puck.y + R >= wallY - halfWallThick
       /\ puck.y - R <= wallY + halfWallThick
       /\ puck.x >= segment.start
       /\ puck.x <= segment.end
    THEN [puck EXCEPT !.y = IF puck.y < wallY THEN wallY - halfWallThick - R - Unit
                            ELSE wallY + halfWallThick + R + Unit,
                      !.vy = -Damp(@)]
    ELSE puck

\* the body of walls.forEach for one segment
WallSegment(puck, segment) ==
    LET a == WallRect(puck, segment)
        b == IF segment.start > 0
             THEN checkCapCollision(a, segment.start, wallY, halfWallThick) ELSE a
    IN  IF segment.end < W
        THEN checkCapCollision(b, segment.end, wallY, halfWallThick) ELSE b

RECURSIVE WallLoop(_, _, _)
WallLoop(puck, walls, k) ==
    IF k > Len(walls) THEN puck
    ELSE WallLoop(WallSegment(puck, walls[k]), walls, k + 1)

RECURSIVE ObstacleLoop(_, _, _)
ObstacleLoop(puck, obstacles, k) ==
    IF k > Len(obstacles) THEN puck
    ELSE ObstacleLoop(checkCapCollision(puck, obstacles[k].x, obstacles[k].y,
                                        obstacles[k].radius), obstacles, k + 1)

\* "dist < minDist" for puck and other; false when a position is NaN
Touching(puck, other) ==
    /\ puck.nan # "xv"
    /\ other.nan # "xv"
    /\ (other.x - puck.x) * (other.x - puck.x) + (other.y - puck.y) * (other.y - puck.y)
           < (2 * R) * (2 * R)

\* faulty variant of Collide: each puck is moved by a quarter of the overlap,
\* not by half of it
Collide_HalfPush(puck, other) ==
    LET dx == other.x - puck.x
        dy == other.y - puck.y
        sq == dx * dx + dy * dy
        minDist == 2 * R
        dist == Sqrt(sq)
        overlap == minDist - dist
        \* cos(atan2(0, 0)) = 1, sin(atan2(0, 0)) = 0
        moveX == IF sq = 0 THEN Quot(overlap, 4) ELSE Quot(Quot(dx * overlap, dist), 4)
        moveY == IF sq = 0 THEN 0 ELSE Quot(Quot(dy * overlap, dist), 4)
        p1 == [puck EXCEPT !.x = @ - moveX, !.y = @ - moveY]
        o1 == [other EXCEPT !.x = @ + moveX, !.y = @ + moveY]
    IN  IF sq = 0 \/ puck.nan = "v" \/ other.nan = "v"
        THEN \* nx = 0 / 0, or a velocity that is NaN already
             << [p1 EXCEPT !.nan = "v", !.vx = 0, !.vy = 0],
                [o1 EXCEPT !.nan = "v", !.vx = 0, !.vy = 0] >>
        ELSE LET \* dist * dpTan and dist * dpNorm (tx = -ny, ty = nx)
                 dpTan1 == puck.vy * dx - puck.vx * dy
                 dpTan2 == other.vy * dx - other.vx * dy
                 dpNorm1 == puck.vx * dx + puck.vy * dy
                 dpNorm2 == other.vx * dx + other.vy * dy
                 \* equal mass: the normal components are exchanged
                 mom1 == dpNorm2
                 mom2 == dpNorm1
             IN  << [p1 EXCEPT !.vx = Damp(Quot(dx * mom1 - dy * dpTan1, sq)),
                               !.vy = Damp(Quot(dx * dpTan1 + dy * mom1, sq))],
                    [o1 EXCEPT !.vx = Damp(Quot(dx * mom2 - dy * dpTan2, sq)),
                               !.vy = Damp(Quot(dx * dpTan2 + dy * mom2, sq))] >>

\* "Ball-to-Ball Collisions": the pair <<puck, other>> after the body of
\* "if (dist < minDist)"
Collide(puck, other) ==
    LET dx == other.x - puck.x
        dy == other.y - puck.y
        sq == dx * dx + dy * dy
        minDist == 2 * R
        dist == Sqrt(sq)
        overlap == minDist - dist
        \* cos(atan2(0, 0)) = 1, sin(atan2(0, 0)) = 0
        moveX == IF sq = 0 THEN Quot(overlap, 2) ELSE Quot(Quot(dx * overlap, dist), 2)
        moveY == IF sq = 0 THEN 0 ELSE Quot(Quot(dy * overlap, dist), 2)
        p1 == [puck EXCEPT !.x = @ - moveX, !.y = @ - moveY]
        o1 == [other EXCEPT !.x = @ + moveX, !.y = @ + moveY]
    IN  IF sq = 0 \/ puck.nan = "v" \/ other.nan = "v"
        THEN \* nx = 0 / 0, or a velocity that is NaN already
             << [p1 EXCEPT !.nan = "v", !.vx = 0, !.vy = 0],
                [o1 EXCEPT !.nan = "v", !.vx = 0, !.vy = 0] >>
        ELSE LET \* dist * dpTan and dist * dpNorm (tx = -ny, ty = nx)
                 dpTan1 == puck.vy * dx - puck.vx * dy
                 dpTan2 == other.vy * dx - other.vx * dy
                 dpNorm1 == puck.vx * dx + puck.vy * dy
                 dpNorm2 == other.vx * dx + other.vy * dy
                 \* equal mass: the normal components are exchanged
                 mom1 == dpNorm2
                 mom2 == dpNorm1
             IN  << [p1 EXCEPT !.vx = Damp(Quot(dx * mom1 - dy * dpTan1, sq)),
                               !.vy = Damp(Quot(dx * dpTan1 + dy * mom1, sq))],
                    [o1 EXCEPT !.vx = Damp(Quot(dx * mom2 - dy * dpTan2, sq)),
                               !.vy = Damp(Quot(dx * dpTan2 + dy * mom2, sq))] >>

RECURSIVE PairLoop(_, _, _, _)
\* the j-loop of pucks[index], from j on
PairLoop(ps, touches, index, j) ==
    IF j >= Cardinality(DOMAIN ps) THEN ps
    ELSE IF isDragged(touches, j) \/ ~Touching(ps[index], ps[j])
    THEN PairLoop(ps, touches, index, j + 1)
    ELSE LET c == Collide(ps[index], ps[j])
         IN  PairLoop([ps EXCEPT ![index] = c[1], ![j] = c[2]], touches, index, j + 1)

\* faulty variant of StepPuck: "if (isDragged) return" is missing
StepPuck_DragIncluded(ps, touches, index, walls, obstacles) ==
    IF ps[index].nan # "no"
    THEN [ps EXCEPT ![index].nan = "xv"]
    ELSE LET a == Boundary(Integrate(ps[index]))
             b == WallLoop(a, walls, 1)
             c == ObstacleLoop(b, obstacles, 1)
         IN  PairLoop([ps EXCEPT ![index] = c], touches, index, index + 1)

\* the body of pucks.forEach inside one sub-step, for pucks[index];
\* walls and obstacles are getWallSegments() and getObstacles() of this frame
StepPuck(ps, touches, index, walls, obstacles) ==
    IF isDragged(touches, index) THEN ps
    ELSE IF ps[index].nan # "no"
    THEN \* x += NaN: every comparison below is false
         [ps EXCEPT ![index].nan = "xv"]
    ELSE LET a == Boundary(Integrate(ps[index]))
             b == WallLoop(a, walls, 1)
             c == ObstacleLoop(b, obstacles, 1)
         IN  PairLoop([ps EXCEPT ![index] = c], touches, index, index + 1)

RECURSIVE SubStep(_, _, _, _, _)
\* one sub-step: pucks.forEach from index on
SubStep(ps, touches, index, walls, obstacles) ==
    IF index >= Cardinality(DOMAIN ps) THEN ps
    ELSE SubStep(StepPuck(ps, touches, index, walls, obstacles), touches, index + 1,
                 walls, obstacles)

RECURSIVE Physics(_, _, _, _, _)
\* "Physics Steps": sub-steps s .. STEPS-1
Physics(ps, touches, s, walls, obstacles) ==
    IF s >= STEPS THEN ps
    ELSE Physics(SubStep(ps, touches, 0, walls, obstacles), touches, s + 1,
                 walls, obstacles)

Slow(v) == Quot(v * FRICTION_NUM, FRICTION_DEN)

\* faulty variant of Friction: the factor is applied once per sub-step
Friction_PerSubStep(ps, touches) ==
    [i \in DOMAIN ps |->
        IF isDragged(touches, i) THEN ps[i]
        ELSE [ps[i] EXCEPT !.vx = Slow(Slow(Slow(Slow(Slow(@))))),
                           !.vy = Slow(Slow(Slow(Slow(Slow(@)))))]]

\* "Apply Friction"
Friction(ps, touches) ==
    [i \in DOMAIN ps |->
        IF isDragged(touches, i) THEN ps[i]
        ELSE [ps[i] EXCEPT !.vx = Slow(@), !.vy = Slow(@)]]

\* "Count": a NaN y is not < height / 2
CountTop(ps) == Cardinality({i \in DOMAIN ps : ps[i].nan # "xv" /\ ps[i].y < wallY})
CountBottom(ps) == Cardinality(DOMAIN ps) - CountTop(ps)

\* !winTimestamp
NoTimestamp(ts) == ts = Null \/ ts[1] = 0

\* faulty variant of WinCondition: the emptied side loses (the rule of the
\* first, single-pointer version of update)
WinCondition_Opposite(tc, bc, t) ==
    LET keep == [gameState |-> gameState, winner |-> winner, topWins |-> topWins,
                 bottomWins |-> bottomWins, winTimestamp |-> winTimestamp]
    IN  IF tc = 0
        THEN IF NoTimestamp(winTimestamp)
             THEN [keep EXCEPT !.winTimestamp = Some(t + WIN_DELAY)]
             ELSE IF t > winTimestamp[1]
             THEN [keep EXCEPT !.gameState = "won", !.winner = "bottom",
                               !.bottomWins = @ + 1]
             ELSE keep
        ELSE IF bc = 0
        THEN IF NoTimestamp(winTimestamp)
             THEN [keep EXCEPT !.winTimestamp = Some(t + WIN_DELAY)]
             ELSE IF t > winTimestamp[1]
             THEN [keep EXCEPT !.gameState = "won", !.winner = "top",
                               !.topWins = @ + 1]
             ELSE keep
        ELSE [keep EXCEPT !.winTimestamp = Null]

\* faulty variant of WinCondition: no debounce, a zero count wins at once
WinCondition_NoDelay(tc, bc, t) ==
    LET keep == [gameState |-> gameState, winner |-> winner, topWins |-> topWins,
                 bottomWins |-> bottomWins, winTimestamp |-> winTimestamp]
    IN  IF tc = 0
        THEN [keep EXCEPT !.gameState = "won", !.winner = "top", !.topWins = @ + 1]
        ELSE IF bc = 0
        THEN [keep EXCEPT !.gameState = "won", !.winner = "bottom",
                          !.bottomWins = @ + 1]
        ELSE [keep EXCEPT !.winTimestamp = Null]

\* faulty variant of WinCondition: the final else branch is missing, the
\* timestamp survives a tally with pucks on both sides
WinCondition_KeepTimer(tc, bc, t) ==
    LET keep == [gameState |-> gameState, winner |-> winner, topWins |-> topWins,
                 bottomWins |-> bottomWins, winTimestamp |-> winTimestamp]
    IN  IF tc = 0
        THEN IF NoTimestamp(winTimestamp)
             THEN [keep EXCEPT !.winTimestamp = Some(t + WIN_DELAY)]
             ELSE IF t > winTimestamp[1]
             THEN [keep EXCEPT !.gameState = "won", !.winner = "top",
                               !.topWins = @ + 1]
             ELSE keep
        ELSE IF bc = 0
        THEN IF NoTimestamp(winTimestamp)
             THEN [keep EXCEPT !.winTimestamp = Some(t + WIN_DELAY)]
             ELSE IF t > winTimestamp[1]
             THEN [keep EXCEPT !.gameState = "won", !.winner = "bottom",
                               !.bottomWins = @ + 1]
             ELSE keep
        ELSE keep

\* "Win Condition" at Date.now() = t, for the tally tc / bc
WinCondition(tc, bc, t) ==
    LET keep == [gameState |-> gameState, winner |-> winner, topWins |-> topWins,
                 bottomWins |-> bottomWins, winTimestamp |-> winTimestamp]
    IN  IF tc = 0
        THEN IF NoTimestamp(winTimestamp)
             THEN [keep EXCEPT !.winTimestamp = Some(t + WIN_DELAY)]
             ELSE IF t > winTimestamp[1]
             THEN [keep EXCEPT !.gameState = "won", !.winner = "top",
                               !.topWins = @ + 1]
             ELSE keep
        ELSE IF bc = 0
        THEN IF NoTimestamp(winTimestamp)
             THEN [keep EXCEPT !.winTimestamp = Some(t + WIN_DELAY)]
             ELSE IF t > winTimestamp[1]
             THEN [keep EXCEPT !.gameState = "won", !.winner = "bottom",
                               !.bottomWins = @ + 1]
             ELSE keep
        ELSE [keep EXCEPT !.winTimestamp = Null]

\* faulty variant of update: the "if (gameState !== 'playing') return" is missing
update_Unguarded(t) ==
    LET ps == Friction(Physics(pucks, activeTouches, 0, getWallSegments(t),
                                getObstacles), activeTouches)
        tc == CountTop(ps)
        bc == CountBottom(ps)
        w == WinCondition(tc, bc, t)
    IN  [pucks |-> ps, topCount |-> tc, bottomCount |-> bc,
         gameState |-> w.gameState, winner |-> w.winner, topWins |-> w.topWins,
         bottomWins |-> w.bottomWins, winTimestamp |-> w.winTimestamp]

\* update() at Date.now() = t
update(t) ==
    IF gameState # "playing"
    THEN [pucks |-> pucks, topCount |-> topCount, bottomCount |-> bottomCount,
          gameState |-> gameState, winner |-> winner, topWins |-> topWins,
          bottomWins |-> bottomWins, winTimestamp |-> winTimestamp]
    ELSE LET ps == Friction(Physics(pucks, activeTouches, 0, getWallSegments(t),
                                     getObstacles), activeTouches)
             tc == CountTop(ps)
             bc == CountBottom(ps)
             w == WinCondition(tc, bc, t)
         IN  [pucks |-> ps, topCount |-> tc, bottomCount |-> bc,
              gameState |-> w.gameState, winner |-> w.winner, topWins |-> w.topWins,
              bottomWins |-> w.bottomWins, winTimestamp |-> w.winTimestamp]


\* ------------------------------------------------------ level transitions
\* the version of the program that animates the change of level
\* (src/unnamed/part_003, first program): its handlers and update() are those
\* modelled above; startGame, loop, getWallSegments and getObstacles differ
transitionDuration == 2000

\* the value of the variable transition after the module's declarations
NoTransitionYet ==
    [previousLevel |-> 0, transitionStartTime |-> 0, lastFrameTime |-> 0,
     holePhases |-> <<0, 0>>, currentParamState |-> Null]

\* one entry of holes: baseOffset in model units, the factors in hundredths,
\* the phase in milliradians
Hole(baseOffset, speedFactor, rangeFactor, phase) ==
    [baseOffset |-> baseOffset, speedFactor |-> speedFactor,
     rangeFactor |-> rangeFactor, phase |-> phase]

getLevelConfig(wins) ==
    LET levelIndex == wins + 1
        GAP_OFFSET == gapOffset * Unit
    IN  IF levelIndex = 1
        THEN [holes |-> << Hole(0, 0, 0, 0), Hole(0, 0, 0, 0) >>, hasObstacles |-> FALSE]
        ELSE IF levelIndex = 2
        THEN [holes |-> << Hole(0, 100, 22, 0), Hole(0, 100, 22, 0) >>,
              hasObstacles |-> FALSE]
        ELSE IF levelIndex = 3
        THEN [holes |-> << Hole(-GAP_OFFSET, 0, 0, 0), Hole(GAP_OFFSET, 0, 0, 0) >>,
              hasObstacles |-> FALSE]
        ELSE IF levelIndex = 4
        THEN [holes |-> << Hole(-GAP_OFFSET, 35, 35, 0), Hole(GAP_OFFSET, 65, 35, PI_MRAD) >>,
              hasObstacles |-> FALSE]
        ELSE IF levelIndex = 5
        THEN [holes |-> << Hole(0, 100, 22, 0), Hole(0, 100, 22, 0) >>,
              hasObstacles |-> TRUE]
        ELSE IF levelIndex >= 6
        THEN [holes |-> << Hole(-GAP_OFFSET, 35, 35, 0), Hole(GAP_OFFSET, 65, 35, PI_MRAD) >>,
              hasObstacles |-> TRUE]
        ELSE [holes |-> << Hole(0, 0, 0, 0), Hole(0, 0, 0, 0) >>, hasObstacles |-> FALSE]

\* lerp(start, end, t), t in thousandths
lerp(start, end, t) == start + Quot((end - start) * t, 1000)

\* easeOutQuad(t) = t * (2 - t), in thousandths
easeOutQuad(t) == Quot(t * (2000 - t), 1000)

\* the eased t of getInterpolatedParams() at Date.now() = time, for a
\* transition that started at start, in thousandths
easedTime(time, start) ==
    LET raw == Quot((time - start) * 1000, transitionDuration)
    IN  easeOutQuad(IF raw > 1000 THEN 1000 ELSE IF raw < 0 THEN 0 ELSE raw)

\* obsScale of getInterpolatedParams() at the eased t, from the level of
\* from wins to the level of to wins, in thousandths
interpolatedObsScale(t, from, to) ==
    LET obsStart == IF getLevelConfig(from).hasObstacles THEN 1000 ELSE 0
        obsEnd == IF getLevelConfig(to).hasObstacles THEN 1000 ELSE 0
    IN  lerp(obsStart, obsEnd, t)

\* getInterpolatedParams() at Date.now() = time, for a transition from the
\* level of from wins to the level of to wins that started at start
InterpolatedParams(time, start, from, to) ==
    LET startConfig == getLevelConfig(from)
        endConfig == getLevelConfig(to)
        t == easedTime(time, start)
    IN  [holes |-> [i \in 1 .. 2 |->
                       Hole(lerp(startConfig.holes[i].baseOffset,
                                 endConfig.holes[i].baseOffset, t),
                            lerp(startConfig.holes[i].speedFactor,
                                 endConfig.holes[i].speedFactor, t),
                            lerp(startConfig.holes[i].rangeFactor,
                                 endConfig.holes[i].rangeFactor, t),
                            lerp(startConfig.holes[i].phase, endConfig.holes[i].phase, t))],
         obsScale |-> interpolatedObsScale(t, from, to)]

getInterpolatedParams(time) ==
    InterpolatedParams(time, transition.transitionStartTime, transition.previousLevel,
                       currentLevel)

\* the part of loop() before update(): the phase accumulators and
\* currentParamState of the frame at Date.now() = time, dt ms after the last
ParamState(params, phases, dt) ==
    LET grown == [i \in 1 .. 2 |->
                     phases[i] + Quot(Quot(dt * 5625, 10) * params.holes[i].speedFactor,
                                      width * 100)]
        off(i) == Quot(Sin(grown[i] + params.holes[i].phase)
                           * Quot(width * Unit * params.holes[i].rangeFactor, 100), 1000)
    IN  [holePhases |-> grown,
         currentParamState |->
             Some([holes |-> [i \in 1 .. 2 |->
                                 [baseOffset |-> params.holes[i].baseOffset,
                                  offsetVal |-> off(i)]],
                   obsScale |-> params.obsScale])]

\* getWallSegments() of the animated version, reading currentParamState
getWallSegmentsAnimated(state) ==
    IF state = Null THEN << >>
    ELSE LET center == (width * Unit) \div 2
             halfHole == (HOLE_WIDTH * Unit) \div 2
             pos1 == center + state[1].holes[1].baseOffset + state[1].holes[1].offsetVal
             pos2 == center + state[1].holes[2].baseOffset + state[1].holes[2].offsetVal
             leftHole == Min(pos1, pos2)
             rightHole == Max(pos1, pos2)
             segments == << Seg(0, leftHole - halfHole),
                            Seg(leftHole + halfHole, rightHole - halfHole),
                            Seg(rightHole + halfHole, W) >>
             keep(s) == s.end > s.start
         IN  SelectSeq(segments, keep)

\* targetRadius and currentRadius of getObstacles() for an obsScale
targetRadius == Quot(halfWallThick * 13, 10)
currentRadius(obsScale) == Quot(targetRadius * obsScale, 1000)

\* faulty variant of getObstaclesAnimated: the "obsScale <= 0.01" test is
\* missing
getObstaclesAnimated_NoCutoff(state) ==
    IF state = Null THEN << >>
    ELSE LET center == (width * Unit) \div 2
             topObsY == (wallY + topBandY) \div 2
             bottomObsY == (wallY + bottomBandY) \div 2
         IN  << Obs(center, topObsY, currentRadius(state[1].obsScale)),
                Obs(center, bottomObsY, currentRadius(state[1].obsScale)) >>

\* getObstacles() of the animated version, reading currentParamState
getObstaclesAnimated(state) ==
    IF state = Null \/ state[1].obsScale <= 10 THEN << >>
    ELSE LET center == (width * Unit) \div 2
             topObsY == (wallY + topBandY) \div 2
             bottomObsY == (wallY + bottomBandY) \div 2
         IN  << Obs(center, topObsY, currentRadius(state[1].obsScale)),
                Obs(center, bottomObsY, currentRadius(state[1].obsScale)) >>

\* update() of the animated version at Date.now() = t, with the
\* currentParamState that loop() has just computed
updateAnimated(t, state) ==
    IF gameState # "playing"
    THEN [pucks |-> pucks, topCount |-> topCount, bottomCount |-> bottomCount,
          gameState |-> gameState, winner |-> winner, topWins |-> topWins,
          bottomWins |-> bottomWins, winTimestamp |-> winTimestamp]
    ELSE LET ps == Friction(Physics(pucks, activeTouches, 0,
                                     getWallSegmentsAnimated(state),
                                     getObstaclesAnimated(state)), activeTouches)
             tc == CountTop(ps)
             bc == CountBottom(ps)
             w == WinCondition(tc, bc, t)
         IN  [pucks |-> ps, topCount |-> tc, bottomCount |-> bc,
              gameState |-> w.gameState, winner |-> w.winner, topWins |-> w.topWins,
              bottomWins |-> w.bottomWins, winTimestamp |-> w.winTimestamp]


\* ------------------------------------------------------------ environment
\* container sizes handleResize may find, <<width, height>> in pixels
InitSize == <<400, 600>>
Sizes == { InitSize, <<400, 1040>>, <<400, 200>> }

\* time between two frames, ms
FrameDeltas == {400, 500}

\* pointer positions of a press, in model units: the centre of the top half
\* and, once there is a roster, the centres of one top and one bottom puck
PressTop == <<W \div 2, (H * 3) \div 10>>
OnPuck(i) == IF i \in DOMAIN pucks /\ pucks[i].nan # "xv"
             THEN <<pucks[i].x, pucks[i].y>> ELSE PressTop
PressPoints == IF pucks = << >> THEN {PressTop} ELSE {OnPuck(2), OnPuck(7)}

\* pointer positions of a move
MovePoints == { <<W \div 2, (H * 5) \div 100>>,
                <<W \div 40, (H * 5) \div 100>>,
                <<W \div 2, (H * 6) \div 10>>,
                <<W \div 2, (H * 95) \div 100>> }

NoPointer == <<"none", 0>>

\* the record of a handler run with the pointer at (x, y)
EventAt(op, id, did, puck, anchor, x, y) ==
    [op |-> op, id |-> id, did |-> did, puck |-> puck, anchor |-> anchor,
     preState |-> gameState, preTs |-> winTimestamp, x |-> x, y |-> y]

\* the record of a handler run that has no pointer position
Event(op, id, did, puck, anchor) == EventAt(op, id, did, puck, anchor, 0, 0)

\* ------------------------------------------------------------------- Init
Init ==
    /\ width = InitSize[1]
    /\ height = InitSize[2]
    /\ gapOffset = Min(200, InitSize[1] \div 4)
    /\ gameState = "start"
    /\ winner = "null"
    /\ pucks = << >>
    /\ activeTouches = Null
    /\ winTimestamp = Null
    /\ topWins = 0
    /\ bottomWins = 0
    /\ currentLevel = 0
    /\ now = 0
    /\ rng \in Seeds
    /\ topCount = 0
    /\ bottomCount = 0
    /\ ev = [op |-> "init", id |-> NoPointer, did |-> "none", puck |-> -1,
             anchor |-> NoAnchor, preState |-> "start", preTs |-> Null,
             x |-> 0, y |-> 0]
    /\ inputs = 0
    /\ transition = NoTransitionYet

\* ---------------------------------------------------------------- actions
\* handleResize: the container is now w x h pixels
Resize(w, h) ==
    /\ <<w, h>> # <<width, height>>
    /\ width' = w
    /\ height' = h
    /\ ev' = Event("resize", NoPointer, "none", -1, NoAnchor)
    /\ UNCHANGED <<gapOffset, gameState, winner, pucks, activeTouches, winTimestamp,
                   topWins, bottomWins, currentLevel, now, rng, topCount, bottomCount,
                   inputs>>

\* loop(): one animation frame, d ms after the previous one
Frame(d) ==
    /\ now' = now + d
    /\ \E u \in {update(now + d)} :
           /\ pucks' = u.pucks
           /\ topCount' = u.topCount
           /\ bottomCount' = u.bottomCount
           /\ gameState' = u.gameState
           /\ winner' = u.winner
           /\ topWins' = u.topWins
           /\ bottomWins' = u.bottomWins
           /\ winTimestamp' = u.winTimestamp
    /\ ev' = Event("frame", NoPointer, IF gameState = "playing" THEN "ran" ELSE "skipped",
                   -1, NoAnchor)
    /\ UNCHANGED <<width, height, gapOffset, activeTouches, currentLevel, rng, inputs>>

\* handleStart(x, y, id), from onMouseDown or onTouchStart
Press(id, x, y) ==
    /\ inputs' = inputs + 1
    /\ IF gameState # "playing"
       THEN /\ \E g \in {startGame} :
                 /\ pucks' = g.pucks
                 /\ activeTouches' = g.activeTouches
                 /\ gameState' = g.gameState
                 /\ winner' = g.winner
                 /\ winTimestamp' = g.winTimestamp
                 /\ currentLevel' = g.currentLevel
                 /\ rng' = g.rng
            /\ ev' = EventAt("press", id, "restart", -1, NoAnchor, x, y)
            /\ UNCHANGED <<width, height, gapOffset, topWins, bottomWins, now,
                           topCount, bottomCount>>
       ELSE IF id \in DOMAIN activeTouches
       THEN /\ ev' = EventAt("press", id, "ignored", -1, NoAnchor, x, y)
            /\ UNCHANGED <<width, height, gapOffset, gameState, winner, pucks,
                           activeTouches, winTimestamp, topWins, bottomWins,
                           currentLevel, now, rng, topCount, bottomCount>>
       ELSE \E c \in {Claim(x, y, id)} :
                /\ pucks' = c.pucks
                /\ activeTouches' = c.activeTouches
                /\ ev' = EventAt("press", id, c.did, c.puck, NoAnchor, x, y)
                /\ UNCHANGED <<width, height, gapOffset, gameState, winner, winTimestamp,
                               topWins, bottomWins, currentLevel, now, rng,
                               topCount, bottomCount>>

\* the puck index and the anchor of id's session, for the event record
SessionPuck(id) == IF id \in DOMAIN activeTouches THEN activeTouches[id].puckIndex ELSE -1
SessionAnchor(id) == IF id \in DOMAIN activeTouches THEN activeTouches[id].anchor ELSE NoAnchor
SessionDid(id) == IF id \in DOMAIN activeTouches THEN "session" ELSE "nosession"

\* what a move, release or cancel event leaves alone
InputFrame ==
    /\ inputs' = inputs + 1
    /\ UNCHANGED <<width, height, gapOffset, gameState, winner, winTimestamp,
                   topWins, bottomWins, currentLevel, now, rng, topCount, bottomCount>>

\* handleMove(x, y, id), from onMouseMove or onTouchMove
Move(id, x, y) ==
    /\ \E r \in {handleMove(x, y, id)} :
           /\ pucks' = r.pucks
           /\ activeTouches' = r.activeTouches
    /\ ev' = EventAt("move", id, SessionDid(id), SessionPuck(id), SessionAnchor(id), x, y)
    /\ InputFrame

\* onMouseUp and onTouchEnd: handleEnd(id)
onTouchEnd(id) == handleEnd(id)

Release(id) ==
    /\ \E r \in {onTouchEnd(id)} :
           /\ pucks' = r.pucks
           /\ activeTouches' = r.activeTouches
    /\ ev' = Event("release", id, SessionDid(id), SessionPuck(id), SessionAnchor(id))
    /\ InputFrame

\* faulty variant of onTouchCancel: no touchcancel listener is registered
\* (the versions of init before the Android fix), the event changes nothing
onTouchCancel_Unheard(id) == [pucks |-> pucks, activeTouches |-> activeTouches]

\* onTouchCancel: handleEnd(id)
onTouchCancel(id) == handleEnd(id)

Cancel(id) ==
    /\ \E r \in {onTouchCancel(id)} :
           /\ pucks' = r.pucks
           /\ activeTouches' = r.activeTouches
    /\ ev' = Event("cancel", id, SessionDid(id), SessionPuck(id), SessionAnchor(id))
    /\ InputFrame

\* ---------------------------------------------------------- specification
\* the pointer handlers, driven by the mouse and a touch, and a few frames
Next ==
    \/ \E d \in {400} : now + d <= MaxTime /\ Frame(d) /\ UNCHANGED transition
    \/ \E id \in Pointers, pt \in PressPoints : inputs < MaxInputs /\ Press(id, pt[1], pt[2]) /\ UNCHANGED transition
    \/ \E id \in Pointers, pt \in MovePoints : inputs < MaxInputs /\ Move(id, pt[1], pt[2]) /\ UNCHANGED transition
    \/ \E id \in Pointers : inputs < MaxInputs /\ Release(id) /\ UNCHANGED transition
    \/ \E id \in Touches : inputs < MaxInputs /\ Cancel(id) /\ UNCHANGED transition

Spec == Init /\ [][Next]_vars

\* the match: resizes, frames at either pace, the mouse pressed
NextMatch ==
    \/ \E s \in Sizes : Resize(s[1], s[2]) /\ UNCHANGED transition
    \/ \E d \in FrameDeltas : now + d <= MaxMatchTime /\ Frame(d) /\ UNCHANGED transition
    \/ inputs < MaxMatchInputs /\ Press(Mouse, PressTop[1], PressTop[2]) /\ UNCHANGED transition

InitMatch == Init /\ rng = 1

SpecMatch == InitMatch /\ [][NextMatch]_vars

\* sessions held while a match ends: a taller arena, slow frames, two pointers
NextHold ==
    \/ Resize(400, 1040) /\ UNCHANGED transition
    \/ now + 900 <= MaxHoldTime /\ Frame(900) /\ UNCHANGED transition
    \/ \E id \in Pointers : inputs < MaxHoldInputs /\ Press(id, OnPuck(2)[1], OnPuck(2)[2]) /\ UNCHANGED transition
    \/ \E id \in Pointers : inputs < MaxHoldInputs /\ Move(id, W \div 2, (H * 5) \div 100) /\ UNCHANGED transition
    \/ \E id \in Pointers : inputs < MaxHoldInputs /\ Release(id) /\ UNCHANGED transition
    \/ \E id \in Touches : inputs < MaxHoldInputs /\ Cancel(id) /\ UNCHANGED transition

SpecHold == InitMatch /\ [][NextHold]_vars

\* presses around pucks that a resize has left on either side of the midline
NextPick ==
    \/ Resize(400, 270) /\ UNCHANGED transition
    \/ now + 400 <= MaxPickTime /\ Frame(400) /\ UNCHANGED transition
    \/ \E id \in Pointers, i \in {2, 3} :
           inputs < MaxPickInputs /\ Press(id, OnPuck(i)[1], OnPuck(i)[2]) /\ UNCHANGED transition
    \/ \E id \in Pointers : inputs < MaxPickInputs /\ Release(id) /\ UNCHANGED transition

SpecPick == InitMatch /\ [][NextPick]_vars

\* several matches in a row: the arena made short or tall ends each of them
NextLevels ==
    \/ \E h \in {200, 1040} : Resize(400, h) /\ UNCHANGED transition
    \/ now + 900 <= MaxLevelTime /\ Frame(900) /\ UNCHANGED transition
    \/ inputs < MaxLevelInputs /\ Press(Mouse, PressTop[1], PressTop[2]) /\ UNCHANGED transition

SpecLevels == InitMatch /\ [][NextLevels]_vars

\* six matches in a row, up to level 6: the arena made short, then restored,
\* ends each of them; the pointer is pressed on the start and win screens only
NextLadder ==
    \/ \E h \in {200, InitSize[2]} : Resize(InitSize[1], h) /\ UNCHANGED transition
    \/ now + 900 <= MaxLadderTime /\ Frame(900) /\ UNCHANGED transition
    \/ /\ inputs < MaxLadderInputs
       /\ gameState # "playing"
       /\ Press(Mouse, PressTop[1], PressTop[2]) /\ UNCHANGED transition

SpecLadder == InitMatch /\ [][NextLadder]_vars

\* two pointers take two pucks to one and the same point of the top half,
\* between the band line and the midline, and let go of them
NextStack ==
    \/ now + 400 <= MaxStackTime /\ Frame(400) /\ UNCHANGED transition
    \/ \E id \in Pointers :
           inputs < MaxStackInputs /\ Press(id, OnPuck(2)[1], OnPuck(2)[2])
               /\ UNCHANGED transition
    \/ \E id \in Pointers :
           inputs < MaxStackInputs /\ Move(id, PressTop[1], PressTop[2])
               /\ UNCHANGED transition
    \/ \E id \in Pointers : inputs < MaxStackInputs /\ Release(id) /\ UNCHANGED transition

SpecStack == InitMatch /\ [][NextStack]_vars

\* no input after the press that starts the match: the container has taken
\* its size before, then frames run at either pace
NextRest ==
    \/ \E s \in Sizes : gameState = "start" /\ Resize(s[1], s[2]) /\ UNCHANGED transition
    \/ \E d \in FrameDeltas : now + d <= MaxRestTime /\ Frame(d) /\ UNCHANGED transition
    \/ /\ gameState = "start"
       /\ Press(Mouse, PressTop[1], PressTop[2])
       /\ UNCHANGED transition

\* states of the generator behind Math.random() when the page has loaded
RestSeeds == {1, 2, 3, 166}

\* the state after construction, for a generator state of RestSeeds
InitRest ==
    /\ width = InitSize[1]
    /\ height = InitSize[2]
    /\ gapOffset = Min(200, InitSize[1] \div 4)
    /\ gameState = "start"
    /\ winner = "null"
    /\ pucks = << >>
    /\ activeTouches = Null
    /\ winTimestamp = Null
    /\ topWins = 0
    /\ bottomWins = 0
    /\ currentLevel = 0
    /\ now = 0
    /\ rng \in RestSeeds
    /\ topCount = 0
    /\ bottomCount = 0
    /\ ev = [op |-> "init", id |-> NoPointer, did |-> "none", puck |-> -1,
             anchor |-> NoAnchor, preState |-> "start", preTs |-> Null,
             x |-> 0, y |-> 0]
    /\ inputs = 0
    /\ transition = NoTransitionYet

SpecRest == InitRest /\ [][NextRest]_vars

\* the animated version -----------------------------------------------
\* loop() of the animated version: one animation frame, d ms after the last
loopAnimated(d) ==
    /\ now' = now + d
    /\ \E c \in {ParamState(getInterpolatedParams(now + d), transition.holePhases,
                            now + d - transition.lastFrameTime)} :
           /\ transition' = [transition EXCEPT !.lastFrameTime = now + d,
                                               !.holePhases = c.holePhases,
                                               !.currentParamState = c.currentParamState]
           /\ \E u \in {updateAnimated(now + d, c.currentParamState)} :
                  /\ pucks' = u.pucks
                  /\ topCount' = u.topCount
                  /\ bottomCount' = u.bottomCount
                  /\ gameState' = u.gameState
                  /\ winner' = u.winner
                  /\ topWins' = u.topWins
                  /\ bottomWins' = u.bottomWins
                  /\ winTimestamp' = u.winTimestamp
    /\ ev' = Event("frame", NoPointer, IF gameState = "playing" THEN "ran" ELSE "skipped",
                   -1, NoAnchor)
    /\ UNCHANGED <<width, height, gapOffset, activeTouches, currentLevel, rng, inputs>>

\* handleStart(x, y, id) of the animated version: its startGame sets up the
\* transition from the level played last
PressAnimated(id, x, y) ==
    /\ Press(id, x, y)
    /\ transition' = IF gameState # "playing"
                     THEN [transition EXCEPT !.previousLevel = currentLevel,
                                             !.transitionStartTime = now]
                     ELSE transition

\* handleResize of the animated version, the container as wide as before
\* (GAP_OFFSET is computed anew, from the same width)
ResizeAnimated(h) ==
    /\ Resize(width, h)
    /\ UNCHANGED transition

\* six matches in a row of the animated version, frames 900 ms apart
NextAnimated ==
    \/ \E h \in {200, InitSize[2]} : ResizeAnimated(h)
    \/ now + 900 <= MaxAnimatedTime /\ loopAnimated(900)
    \/ /\ inputs < MaxAnimatedInputs
       /\ gameState # "playing"
       /\ PressAnimated(Mouse, PressTop[1], PressTop[2])

SpecAnimated == InitMatch /\ [][NextAnimated]_vars

\* single collision resolutions ---------------------------------------
\* positions of the puck relative to the centre of a cap, its velocities,
\* places at the arena edges, and the other puck's offset and velocity
ProbeOffsets == {-260, -100, -1, 0, 1, 180}
ProbeSpeeds == {-300, 0, 70}
EdgePlaces == { <<100, 100>>, <<InitSize[1] * Unit - 100, InitSize[2] * Unit - 50>>,
                <<PUCK_RADIUS * Unit, 2000>> }
PairOffsets == { <<0, 0>>, <<1, 0>>, <<-120, 160>>, <<0, 299>>, <<300, 0>>, <<200, -200>> }
PairSpeeds == { <<0, 0>>, <<-300, 70>>, <<55, -20>> }

\* the radius of an obstacle, as getObstacles computes it
obstacleRadius == Quot(halfWallThick * 13, 10)

\* the cap at the right end of the left wall segment
capX == getWallSegments(now)[1].end
capY == wallY

ProbePuck(x, y, vx, vy) == [x |-> x, y |-> y, vx |-> vx, vy |-> vy, nan |-> "no"]

\* a match of level 1 with two pucks in simulation, the first near the cap
\* or at an edge of the arena, the second near the first
InitResolve ==
    /\ width = InitSize[1]
    /\ height = InitSize[2]
    /\ gapOffset = Min(200, InitSize[1] \div 4)
    /\ gameState = "playing"
    /\ winner = "null"
    /\ activeTouches = Null
    /\ winTimestamp = Null
    /\ topWins = 0
    /\ bottomWins = 0
    /\ currentLevel = 0
    /\ now = 0
    /\ rng = 1
    /\ topCount = 0
    /\ bottomCount = 0
    /\ ev = [op |-> "init", id |-> NoPointer, did |-> "none", puck |-> -1,
             anchor |-> NoAnchor, preState |-> "playing", preTs |-> Null,
             x |-> 0, y |-> 0]
    /\ inputs = 0
    /\ transition = NoTransitionYet
    /\ \E place \in {<<capX + dx, capY + dy>> : dx \in ProbeOffsets, dy \in ProbeOffsets}
                        \cup EdgePlaces,
          vx \in ProbeSpeeds, vy \in ProbeSpeeds, off \in PairOffsets, v \in PairSpeeds :
           pucks = [i \in 0 .. 1 |->
                       IF i = 0 THEN ProbePuck(place[1], place[2], vx, vy)
                       ELSE ProbePuck(place[1] + off[1], place[2] + off[2], v[1], v[2])]

\* one resolution applied to the pucks as drawn; the event records where the
\* first puck was
Resolved(op, did, ps) ==
    /\ ev.op = "init"
    /\ pucks' = ps
    /\ ev' = EventAt(op, NoPointer, did, 0, NoAnchor, pucks[0].x, pucks[0].y)
    /\ UNCHANGED <<width, height, gapOffset, gameState, winner, activeTouches,
                   winTimestamp, topWins, bottomWins, currentLevel, now, rng,
                   topCount, bottomCount, inputs, transition>>

\* dist < radiusSum of checkCapCollision for the first puck
CapHit(radius) ==
    (pucks[0].x - capX) * (pucks[0].x - capX) + (pucks[0].y - capY) * (pucks[0].y - capY)
        < (radius + R) * (radius + R)

\* checkCapCollision(puck, wallRight, wallY, halfWallThick) for the first puck
resolveCap ==
    Resolved("cap", IF CapHit(halfWallThick) THEN "hit" ELSE "miss",
             [pucks EXCEPT ![0] = checkCapCollision(pucks[0], capX, capY, halfWallThick)])

\* checkCapCollision(puck, obs.x, obs.y, obs.radius) for the first puck and an
\* obstacle centred where the cap is
resolveObstacle ==
    Resolved("obstacle", IF CapHit(obstacleRadius) THEN "hit" ELSE "miss",
             [pucks EXCEPT ![0] = checkCapCollision(pucks[0], capX, capY, obstacleRadius)])

\* the ball-to-ball loop of the first puck
resolvePair ==
    Resolved("pair", IF Touching(pucks[0], pucks[1]) THEN "hit" ELSE "miss",
             PairLoop(pucks, activeTouches, 0, 1))

\* the four edge tests for the first puck
resolveBoundary ==
    Resolved("boundary", IF Boundary(pucks[0]) # pucks[0] THEN "hit" ELSE "miss",
             [pucks EXCEPT ![0] = Boundary(pucks[0])])

\* the rectangular part of the left wall segment for the first puck
resolveWall ==
    Resolved("wall",
             IF WallRect(pucks[0], getWallSegments(now)[1]) # pucks[0] THEN "hit" ELSE "miss",
             [pucks EXCEPT ![0] = WallRect(pucks[0], getWallSegments(now)[1])])

NextResolve ==
    \/ resolveCap
    \/ resolveObstacle
    \/ resolvePair
    \/ resolveBoundary
    \/ resolveWall

SpecResolve == InitResolve /\ [][NextResolve]_vars

\* ================================================================= claims
\* a step of loop() whose update() ran (resp. returned at once)
FrameRan == now' # now /\ gameState = "playing"
FrameSkipped == now' # now /\ gameState # "playing"

\* the step on which the match is won
Won == gameState = "playing" /\ gameState' = "won"

\* ----------------------------------------------------------------- C1
\* C1, as claimed: when the match goes from playing to won because side S
\* holds no puck, the winner is the side opposite to S, the opposite side's
\* win counter grows by one and S's own counter is unchanged.
C1_Original ==
    [][Won =>
         /\ topCount' = 0 =>
                winner' = "bottom" /\ bottomWins' = bottomWins + 1 /\ topWins' = topWins
         /\ bottomCount' = 0 =>
                winner' = "top" /\ topWins' = topWins + 1 /\ bottomWins' = bottomWins]_vars

\* C1, amended: when the match goes from playing to won, one side S holds no
\* puck in that frame's tally, the winner is S itself, S's own win counter
\* grows by one and the other side's counter is unchanged.
C1_WinnerIsEmptiedSide ==
    [][Won =>
         /\ topCount' = 0 \/ bottomCount' = 0
         /\ topCount' = 0 =>
                winner' = "top" /\ topWins' = topWins + 1 /\ bottomWins' = bottomWins
         /\ topCount' # 0 =>
                winner' = "bottom" /\ bottomWins' = bottomWins + 1 /\ topWins' = topWins]_vars

\* a frame has just ended the match in favour of the top side, whose half is empty
C1_Witness ==
    /\ ev.op = "frame" /\ ev.preState = "playing" /\ gameState = "won"
    /\ topCount = 0 /\ bottomCount = NumPucks
    /\ winner = "top" /\ topWins = 1 /\ bottomWins = 0

\* ----------------------------------------------------------------- C2
\* C2: a frame that tallies a zero count while no timer is pending leaves the
\* match playing and sets the timer to that frame's time plus the 800 ms
\* delay; while a side stays empty the pending timer is not moved; and the
\* match is won only by a frame that found the timer pending and runs no
\* earlier than it.  So at least 800 ms pass between the frame that starts the
\* timer and the win.
C2_Debounce ==
    [][/\ (FrameRan /\ winTimestamp = Null /\ (topCount' = 0 \/ bottomCount' = 0)) =>
              gameState' = "playing" /\ winTimestamp' = Some(now' + WIN_DELAY)
       /\ (FrameRan /\ winTimestamp # Null /\ (topCount' = 0 \/ bottomCount' = 0)) =>
              winTimestamp' = winTimestamp
       /\ Won => /\ FrameRan
                 /\ winTimestamp # Null
                 /\ now' >= winTimestamp[1]]_vars

\* a frame ran exactly 800 ms after the one that started the timer: a side is
\* still empty, the timer is still pending and the match is still playing
C2_Witness ==
    /\ ev.op = "frame" /\ ev.did = "ran"
    /\ ev.preTs # Null /\ winTimestamp = ev.preTs
    /\ now = winTimestamp[1]
    /\ topCount = 0 \/ bottomCount = 0
    /\ gameState = "playing"

\* ----------------------------------------------------------------- C3
\* C3: the match is won on side S being empty only if S was empty at every
\* tally since the timer started; in particular S was empty at the tally
\* before the winning one, which is the one that started the timer or a later one.
C3_SameSideThroughout ==
    [][Won =>
         /\ topCount' = 0 => topCount = 0
         /\ bottomCount' = 0 => bottomCount = 0]_vars

\* ----------------------------------------------------------------- C4
\* C4: a frame that tallies at least one puck on each side clears the pending
\* timestamp to null and leaves the match playing; a frame that then tallies a
\* zero count with no timestamp pending sets the timestamp a full 800 ms
\* ahead of its own time.
C4_TimerCleared ==
    [][/\ (FrameRan /\ topCount' > 0 /\ bottomCount' > 0) =>
              winTimestamp' = Null /\ gameState' = "playing"
       /\ (FrameRan /\ winTimestamp = Null /\ (topCount' = 0 \/ bottomCount' = 0)) =>
              winTimestamp' = Some(now' + WIN_DELAY) /\ gameState' = "playing"]_vars

\* a frame found a timer pending and not yet elapsed, tallied pucks on both
\* sides and cleared it
C4_Witness ==
    /\ ev.op = "frame" /\ ev.did = "ran"
    /\ ev.preTs # Null /\ now < ev.preTs[1]
    /\ topCount > 0 /\ bottomCount > 0
    /\ winTimestamp = Null
    /\ gameState = "playing"

\* ----------------------------------------------------------------- C5
\* no two sessions reference the same puck
OnePuckEach(touches) ==
    \A p, q \in DOMAIN touches : p # q => touches[p].puckIndex # touches[q].puckIndex

\* the step is handleStart for a pointer that has a session
PressHeld == ev'.op = "press" /\ ev'.id \in DOMAIN activeTouches

\* C5, as claimed: after every step no two sessions reference the same puck
\* (a pointer has at most one session by construction of the map); a press
\* that opens a session takes a puck no session held; and a press from a
\* pointer that has a session changes nothing, in every state.
C5_Original ==
    [][/\ OnePuckEach(activeTouches')
       /\ (ev'.op = "press" /\ ev'.did = "claimed") =>
              ~isDragged(activeTouches, activeTouches'[ev'.id].puckIndex)
       /\ PressHeld =>
              UNCHANGED <<pucks, activeTouches, gameState, winner, winTimestamp>>]_vars

\* C5, amended: as claimed, except that a press from a pointer that has a
\* session is ignored while the match is playing; once the match is won such
\* a press restarts the match like any other press.
C5_Sessions ==
    [][/\ OnePuckEach(activeTouches')
       /\ (ev'.op = "press" /\ ev'.did = "claimed") =>
              ~isDragged(activeTouches, activeTouches'[ev'.id].puckIndex)
       /\ (PressHeld /\ gameState = "playing") =>
              UNCHANGED <<pucks, activeTouches, gameState, winner, winTimestamp>>]_vars

\* a press has just opened a second session although a held puck of lower
\* index lies within the pick radius of the press point: the press passed
\* over the held puck
C5_Witness ==
    /\ ev.op = "press" /\ ev.did = "claimed"
    /\ \E q \in DOMAIN activeTouches \ {ev.id} :
           LET held == pucks[activeTouches[q].puckIndex]
               dx == held.x - activeTouches[ev.id].startX
               dy == held.y - activeTouches[ev.id].startY
           IN  /\ activeTouches[q].puckIndex < ev.puck
               /\ dx * dx + dy * dy < (PICK_FACTOR * R) * (PICK_FACTOR * R)

\* ----------------------------------------------------------------- C6
\* the step is a touchcancel for a pointer that has a session
CancelHeld == ev'.op = "cancel" /\ ev'.id \in DOMAIN activeTouches

\* C6: a cancel for a pointer that has a session does what a release does: the
\* pointer's session is removed and the others are kept, the session's puck
\* gets the launch velocity of a release and every other puck is untouched;
\* afterwards no session references that puck.
C6_CancelIsRelease ==
    [][CancelHeld =>
         LET id == ev'.id
             touch == activeTouches[id]
         IN  /\ DOMAIN activeTouches' = DOMAIN activeTouches \ {id}
             /\ \A p \in DOMAIN activeTouches' : activeTouches'[p] = activeTouches[p]
             /\ pucks' = [pucks EXCEPT ![touch.puckIndex] = Released(touch, @)]
             /\ ~isDragged(activeTouches', touch.puckIndex)
             /\ <<pucks', activeTouches'>> = <<onTouchEnd(id).pucks,
                                              onTouchEnd(id).activeTouches>>]_vars

\* a touch was cancelled while its puck was held behind the band line: the
\* session is gone and the puck has been launched
C6_Witness ==
    /\ ev.op = "cancel" /\ ev.did = "session" /\ ev.anchor.set
    /\ ev.id \notin DOMAIN activeTouches
    /\ ~isDragged(activeTouches, ev.puck)
    /\ pucks[ev.puck].vy # 0

\* ----------------------------------------------------------------- C7
\* the last event ended a session (release or cancel)
Ended == ev.op \in {"release", "cancel"} /\ ev.did = "session"

\* C7: right after a session is released or cancelled with no anchor set, the
\* velocity of its puck is (0, 0).
C7_NoAnchorNoVelocity ==
    (Ended /\ ~ev.anchor.set) =>
        /\ pucks[ev.puck].nan = "no"
        /\ pucks[ev.puck].vx = 0
        /\ pucks[ev.puck].vy = 0

\* a session without anchor was just released, a frame has run before that
\* and another pointer holds another puck
C7_Witness ==
    /\ Ended /\ ~ev.anchor.set
    /\ now > 0
    /\ activeTouches # Null
    /\ pucks[ev.puck].vx = 0 /\ pucks[ev.puck].vy = 0

\* ----------------------------------------------------------------- C8
\* k * (anchor - position) for the puck and anchor of the session just ended
LaunchX == Quot((ev.anchor.x - pucks[ev.puck].x) * DRAG_NUM, DRAG_DEN)
LaunchY == Quot((ev.anchor.y - pucks[ev.puck].y) * DRAG_NUM, DRAG_DEN)
Cap == MAX_SPEED * Unit
Norm2(x, y) == x * x + y * y

\* C8: right after a release with an anchor the puck's velocity is
\* k * (anchor - position) when that vector is no longer than MAX_SPEED, and
\* otherwise a vector of the same direction and of length MAX_SPEED, each up
\* to one model unit of rounding; after any release the speed is at most
\* MAX_SPEED, up to one model unit.
C8_LaunchVelocity ==
    /\ (Ended /\ ev.anchor.set) =>
           LET v == pucks[ev.puck]
           IN  /\ v.nan = "no"
               /\ IF Norm2(LaunchX, LaunchY) <= Cap * Cap
                  THEN v.vx = LaunchX /\ v.vy = LaunchY
                  ELSE \* the same direction ...
                       /\ Abs(v.vx * LaunchY - v.vy * LaunchX)
                              <= Abs(LaunchX) + Abs(LaunchY)
                       /\ v.vx * LaunchX + v.vy * LaunchY > 0
                       \* ... and the length MAX_SPEED
                       /\ Norm2(v.vx, v.vy) >= (Cap - 2) * (Cap - 2)
    /\ Ended => Norm2(pucks[ev.puck].vx, pucks[ev.puck].vy) <= (Cap + 1) * (Cap + 1)

\* a release whose k * (anchor - position) is longer than MAX_SPEED
C8_Witness ==
    /\ Ended /\ ev.anchor.set
    /\ Norm2(LaunchX, LaunchY) > Cap * Cap
    /\ pucks[ev.puck].vx # 0 /\ pucks[ev.puck].vy # 0

\* ----------------------------------------------------------------- C9
\* the last event released a top-side session whose puck lay beyond the top
\* band line (the arena has the size it had throughout the session)
TopPullReleased ==
    /\ Ended /\ ev.anchor.set
    /\ pucks[ev.puck].y < topBandY

\* C9, as claimed: such a release leaves the puck with negative vy and a speed
\* of at most MAX_SPEED.
C9_Original ==
    TopPullReleased =>
        /\ pucks[ev.puck].vy < 0
        /\ Norm2(pucks[ev.puck].vx, pucks[ev.puck].vy) <= (Cap + 1) * (Cap + 1)

\* C9, amended: when the arena was not resized during the session, such a
\* release leaves the puck with positive vy (down, back toward the band line
\* and the wall) and a speed of at most MAX_SPEED.
C9_SlingShot ==
    TopPullReleased =>
        /\ pucks[ev.puck].nan = "no"
        /\ pucks[ev.puck].vy > 0
        /\ Norm2(pucks[ev.puck].vx, pucks[ev.puck].vy) <= (Cap + 1) * (Cap + 1)

\* the scenario of the claim: the puck was dragged to (w/2, 0.05h) and released
C9_Witness ==
    /\ TopPullReleased
    /\ ev.op = "release"
    /\ pucks[ev.puck].x = W \div 2
    /\ pucks[ev.puck].y = (H * 5) \div 100
    /\ pucks[ev.puck].vx = 0
    /\ pucks[ev.puck].vy > 0

\* ---------------------------------------------------------------- C10
\* C10: a frame in state start or won changes no puck, no win counter, and
\* neither the state, the winner nor the pending-win timestamp.
C10_IdleFrame ==
    [][FrameSkipped =>
         UNCHANGED <<pucks, topWins, bottomWins, gameState, winner, winTimestamp>>]_vars

\* a frame was skipped in state won while a puck lay outside the (resized)
\* arena, where a frame that ran would have pushed it back inside
C10_Witness ==
    /\ ev.op = "frame" /\ ev.did = "skipped"
    /\ gameState = "won"
    /\ \E i \in DOMAIN pucks : pucks[i].nan = "no" /\ pucks[i].y + R > H

\* ---------------------------------------------------------------- C11
\* the step is handleStart in state start or won
PressIdle == ev'.op = "press" /\ gameState # "playing"

\* puck p is as startGame spawns the i-th puck in the arena of the next state:
\* at rest, within 100 px of the centre line and within 50 px of the quarter
\* line of its side
Fresh(p, i) ==
    /\ p.nan = "no" /\ p.vx = 0 /\ p.vy = 0
    /\ Abs(p.x - (width' * Unit) \div 2) <= 100 * Unit
    /\ Abs(p.y - (IF i < PER_SIDE THEN (height' * Unit) \div 4
                  ELSE (height' * Unit * 3) \div 4)) <= 50 * Unit

\* C11: a press in state start or won leaves the state playing, the winner
\* and the pending-win timestamp null, a roster of ten freshly spawned pucks
\* and an empty session map.
C11_Restart ==
    [][PressIdle =>
         /\ gameState' = "playing"
         /\ winner' = "null"
         /\ winTimestamp' = Null
         /\ activeTouches' = Null
         /\ DOMAIN pucks' = 0 .. 2 * PER_SIDE - 1
         /\ \A i \in DOMAIN pucks' : Fresh(pucks'[i], i)]_vars

\* a press on a puck has just restarted a won match, whose timestamp was
\* still set: no session was opened
C11_Witness ==
    /\ ev.op = "press" /\ ev.did = "restart"
    /\ ev.preState = "won" /\ ev.preTs # Null
    /\ gameState = "playing" /\ winner = "null" /\ winTimestamp = Null
    /\ activeTouches = Null
    /\ topWins + bottomWins = 1

\* ---------------------------------------------------------------- C12
\* the step is handleStart while playing, for a pointer without a session
PressFree == ev'.op = "press" /\ gameState = "playing" /\ ev'.id \notin DOMAIN activeTouches

\* puck i is unclaimed, within the pick radius of (x, y) and on the same half
Eligible(i, x, y) ==
    /\ ~isDragged(activeTouches, i)
    /\ pucks[i].nan # "xv"
    /\ Norm2(pucks[i].x - x, pucks[i].y - y) < (PICK_FACTOR * R) * (PICK_FACTOR * R)
    /\ (pucks[i].y < wallY) = (y < wallY)

\* C12: such a press opens a session for the first eligible puck and zeroes
\* its velocity, changing nothing else; when no puck is eligible it changes
\* neither the sessions nor the pucks.
C12_FirstAgreeing ==
    [][PressFree =>
         LET id == ev'.id
             eligible == {i \in DOMAIN pucks : Eligible(i, ev'.x, ev'.y)}
         IN  IF eligible # {}
             THEN LET first == CHOOSE i \in eligible : \A j \in eligible : i <= j
                  IN  /\ DOMAIN activeTouches' = DOMAIN activeTouches \cup {id}
                      /\ activeTouches'[id].puckIndex = first
                      /\ pucks' = [pucks EXCEPT ![first].vx = 0, ![first].vy = 0,
                                                ![first].nan = "no"]
             ELSE activeTouches' = activeTouches /\ pucks' = pucks]_vars

\* ---------------------------------------------------------------- C13
\* the step is handleMove for a pointer that has a session
MoveHeld == ev'.op = "move" /\ ev'.id \in DOMAIN activeTouches

\* C13: after a move of a session the puck's x is the pointer's x and its y
\* is the pointer's y, clamped to at most height/2 - PUCK_RADIUS - 10 for a
\* top session and to at least height/2 + PUCK_RADIUS + 10 for a bottom
\* session; the puck is in the session's own half.
C13_MoveClamped ==
    [][MoveHeld =>
         LET touch == activeTouches[ev'.id]
             p == pucks'[touch.puckIndex]
         IN  /\ p.x = ev'.x
             /\ touch.side = "top" =>
                    /\ p.y = Min(ev'.y, wallY - R - DRAG_MARGIN * Unit)
                    /\ p.y < wallY
             /\ touch.side = "bottom" =>
                    /\ p.y = Max(ev'.y, wallY + R + DRAG_MARGIN * Unit)
                    /\ p.y > wallY]_vars

\* the pointer of a top session has moved into the bottom half: the puck
\* stopped at the clearance line
C13_Witness ==
    /\ ev.op = "move" /\ ev.did = "session"
    /\ activeTouches[ev.id].side = "top"
    /\ ev.y > wallY
    /\ pucks[ev.puck].x = ev.x
    /\ pucks[ev.puck].y = wallY - R - DRAG_MARGIN * Unit

\* ---------------------------------------------------------------- C14
\* puck p of a session of the given side lies strictly beyond the band line
Beyond(side, p) == IF side = "top" THEN p.y < topBandY ELSE p.y > bottomBandY

\* C14: a move that leaves the puck strictly beyond its band line keeps the
\* anchor it finds, and sets it to (puck x, band line y) when it finds none;
\* a move that leaves the puck at or inside the band line clears the anchor.
\* So the anchor is that of the first move of the current run beyond the line.
C14_AnchorFixed ==
    [][MoveHeld =>
         LET touch == activeTouches[ev'.id]
             p == pucks'[touch.puckIndex]
             anchor == activeTouches'[ev'.id].anchor
         IN  IF Beyond(touch.side, p)
             THEN IF touch.anchor.set
                  THEN anchor = touch.anchor
                  ELSE anchor = Anchor(p.x, IF touch.side = "top" THEN topBandY
                                            ELSE bottomBandY)
             ELSE anchor = NoAnchor]_vars

\* a second move beyond the band line in a row: the anchor is the one the
\* move found, on the band line, and not at the puck's present x
C14_Witness ==
    /\ ev.op = "move" /\ ev.did = "session" /\ ev.anchor.set
    /\ activeTouches[ev.id].anchor = ev.anchor
    /\ Beyond(activeTouches[ev.id].side, pucks[ev.puck])
    /\ ev.anchor.x # pucks[ev.puck].x

\* ---------------------------------------------------------------- C15
\* the step is handleEnd (release or cancel) for a pointer that has a session
EndHeld == ev'.op \in {"release", "cancel"} /\ ev'.id \in DOMAIN activeTouches

\* an upper bound of the distance puck p covers in one frame
Reach(p) == IF p.nan = "no" THEN Abs(p.vx) + Abs(p.vy) ELSE 0

\* the largest Reach among the pucks other than i that no session holds
OthersReach(i) ==
    LET free == {j \in DOMAIN pucks \ {i} : ~isDragged(activeTouches, j)}
    IN  IF free = {} THEN 0
        ELSE LET m == CHOOSE j \in free : \A k \in free : Reach(pucks[j]) >= Reach(pucks[k])
             IN  Reach(pucks[m])

\* puck i moves and can touch nothing during the coming frame: its path keeps
\* clear of the arena edges and of the wall band, there is no obstacle, and
\* every puck in simulation is too far away to meet it
InOpen(i) ==
    LET p == pucks[i]
        left == Min(p.x, p.x + p.vx) - R - Unit
        right == Max(p.x, p.x + p.vx) + R + Unit
        top == Min(p.y, p.y + p.vy) - R - Unit
        bottom == Max(p.y, p.y + p.vy) + R + Unit
        clear == 3 * R + Reach(p) + OthersReach(i)
    IN  /\ p.nan = "no"
        /\ p.vx # 0 \/ p.vy # 0
        /\ left >= 0 /\ right <= W
        /\ top >= 0 /\ bottom <= H
        /\ bottom < wallY - halfWallThick \/ top > wallY + halfWallThick
        /\ getObstacles = << >>
        /\ \A j \in DOMAIN pucks \ {i} :
               \/ isDragged(activeTouches, j)
               \/ pucks[j].nan = "xv"
               \/ Norm2(pucks[j].x - p.x, pucks[j].y - p.y) > clear * clear

\* C15: a release or cancel for a pointer that has a session removes the
\* session, so that no session holds its puck; and a frame that runs
\* simulates every puck no session holds: one that moves in the open advances
\* by its velocity and is slowed by friction, while a held puck is untouched.
C15_ResumesSimulation ==
    [][/\ EndHeld =>
              /\ ev'.id \notin DOMAIN activeTouches'
              /\ ~isDragged(activeTouches', activeTouches[ev'.id].puckIndex)
       /\ FrameRan =>
              \A i \in DOMAIN pucks :
                  /\ isDragged(activeTouches, i) => pucks'[i] = pucks[i]
                  /\ (~isDragged(activeTouches, i) /\ InOpen(i)) =>
                         /\ pucks'[i].x = pucks[i].x + STEPS * Quot(pucks[i].vx, STEPS)
                         /\ pucks'[i].y = pucks[i].y + STEPS * Quot(pucks[i].vy, STEPS)
                         /\ pucks'[i].vx = Slow(pucks[i].vx)
                         /\ pucks'[i].vy = Slow(pucks[i].vy)]_vars

\* the launch speed of a puck released at (w/2, 0.05h) with its anchor on the
\* top band line
PullLaunch == Quot((topBandY - (H * 5) \div 100) * DRAG_NUM, DRAG_DEN)

\* the first frame after such a release has run: no session holds the puck,
\* it has advanced by its launch velocity and friction has slowed it
C15_Witness ==
    /\ ev.op = "frame" /\ ev.did = "ran"
    /\ \E i \in DOMAIN pucks :
           /\ ~isDragged(activeTouches, i)
           /\ pucks[i].x = W \div 2
           /\ pucks[i].y = (H * 5) \div 100 + STEPS * Quot(PullLaunch, STEPS)
           /\ pucks[i].vx = 0
           /\ pucks[i].vy = Slow(PullLaunch)

\* ---------------------------------------------------------------- C16
\* the step is a move, release or cancel event
PointerStep == ev'.op \in {"move", "release", "cancel"}

\* C16: a move, release or cancel for one pointer leaves every other
\* pointer's session as it was, field by field, and leaves the puck of every
\* other session untouched.
C16_Independent ==
    [][PointerStep =>
         \A q \in DOMAIN activeTouches \ {ev'.id} :
             /\ q \in DOMAIN activeTouches'
             /\ activeTouches'[q] = activeTouches[q]
             /\ pucks'[activeTouches[q].puckIndex] = pucks[activeTouches[q].puckIndex]]_vars

\* two pointers hold pucks of opposite sides and one of them has just moved
\* its puck
C16_Witness ==
    /\ ev.op = "move" /\ ev.did = "session"
    /\ \E q \in DOMAIN activeTouches \ {ev.id} :
           /\ activeTouches[q].side # activeTouches[ev.id].side
           /\ activeTouches[q].puckIndex # activeTouches[ev.id].puckIndex
    /\ pucks[ev.puck].x = ev.x

\* ---------------------------------------------------------------- C17
\* C17: every session's puck index is an index of the current roster, in
\* every state; and right after a press has restarted the match the roster
\* is the new one of ten pucks and there is no session.
C17_SessionsValid ==
    /\ \A id \in DOMAIN activeTouches :
           activeTouches[id].puckIndex \in 0 .. NumPucks - 1
    /\ (ev.op = "press" /\ ev.did = "restart") =>
           activeTouches = Null /\ NumPucks = 2 * PER_SIDE

\* the match is won while two pointers still hold a puck each
C17_Witness ==
    /\ gameState = "won"
    /\ Cardinality(DOMAIN activeTouches) = 2
    /\ \A id \in DOMAIN activeTouches : activeTouches[id].puckIndex \in DOMAIN pucks

\* ---------------------------------------------------------------- C18
\* C18: once a match has been started the roster holds exactly ten pucks,
\* indexed 0..9, and the tally of every frame that ran adds up to ten.
C18_TenPucks ==
    gameState # "start" =>
        /\ DOMAIN pucks = 0 .. 2 * PER_SIDE - 1
        /\ (ev.op = "frame" /\ ev.did = "ran") => topCount + bottomCount = 2 * PER_SIDE

\* a frame of the third match has tallied ten pucks, all on one side
C18_Witness ==
    /\ ev.op = "frame" /\ ev.did = "ran"
    /\ topWins + bottomWins = 2
    /\ NumPucks = 2 * PER_SIDE
    /\ topCount = 2 * PER_SIDE \/ bottomCount = 2 * PER_SIDE

\* ---------------------------------------------------------------- C19
\* C19: the step that wins a match adds one to exactly one win counter and
\* no other step changes a counter; while the match is playing the level
\* index (level - 1) is the number of wins, which is the number counted when
\* the match started; and restarting a won match raises the level by one.
C19_LevelPerMatch ==
    [][/\ Won => \/ topWins' = topWins + 1 /\ bottomWins' = bottomWins
                 \/ bottomWins' = bottomWins + 1 /\ topWins' = topWins
       /\ ~Won => topWins' = topWins /\ bottomWins' = bottomWins
       /\ gameState' = "playing" => currentLevel' = topWins' + bottomWins'
       /\ (gameState = "won" /\ gameState' = "playing") =>
              currentLevel' = currentLevel + 1]_vars

\* a frame came after the one that won the second match: two wins are
\* counted, and the match was played at level 2
C19_Witness ==
    /\ ev.op = "frame" /\ ev.did = "skipped"
    /\ gameState = "won"
    /\ topWins + bottomWins = 2
    /\ currentLevel = 1

\* ---------------------------------------------------------------- C20
\* no segment of the list has end <= start
NoDegenerate(walls) == \A k \in 1 .. Len(walls) : walls[k].end > walls[k].start

\* C20: the segment list that the frame just run handed to the wall and cap
\* checks of every simulated puck contains no segment with end <= start.
C20_NoDegenerateSegment ==
    (ev.op = "frame" /\ ev.did = "ran") => NoDegenerate(getWallSegments(now))

\* ---------------------------------------------------------------- C21
\* C21: in every match, getObstacles() is empty at levels 1 to 4 and at
\* every level >= 5 it is exactly two obstacles, both at x = width / 2, the
\* first halfway between the midline and the top band line, the second
\* halfway between the midline and the bottom band line, with one and the
\* same positive radius.
C21_TwoObstacles ==
    gameState # "start" =>
        IF currentLevel + 1 >= 5
        THEN /\ Len(getObstacles) = 2
             /\ \A k \in 1 .. 2 : Abs(2 * getObstacles[k].x - W) <= 1
             /\ Abs(2 * getObstacles[1].y - (wallY + topBandY)) <= 1
             /\ Abs(2 * getObstacles[2].y - (wallY + bottomBandY)) <= 1
             /\ getObstacles[1].radius > 0
             /\ getObstacles[1].radius = getObstacles[2].radius
        ELSE getObstacles = << >>

\* a frame of the sixth match ran in the arena made short, with two obstacles
C21_Witness ==
    /\ ev.op = "frame" /\ ev.did = "ran"
    /\ currentLevel + 1 = 6
    /\ height = 200
    /\ Len(getObstacles) = 2

\* ---------------------------------------------------------------- C22
\* win counts and times since the start of a transition for which the
\* interpolation is evaluated, whichever way the level changes
TransitionWins == {3, 4}
TransitionElapsed == {-100, 0, 10, 20, 100, 500, 1000, 1500, 1990, 2000, 2100}

\* the obstacle radius of a currentParamState lies between 0 and the target
\* radius, so does the radius of every obstacle handed to the collision
\* loop, and with a radius of 0 no obstacle is handed to it
RadiusBounded(state) ==
    state # Null =>
        /\ currentRadius(state[1].obsScale) >= 0
        /\ currentRadius(state[1].obsScale) <= targetRadius
        /\ \A k \in 1 .. Len(getObstaclesAnimated(state)) :
               /\ getObstaclesAnimated(state)[k].radius >= 0
               /\ getObstaclesAnimated(state)[k].radius <= targetRadius
        /\ currentRadius(state[1].obsScale) = 0 => getObstaclesAnimated(state) = << >>

\* C22: in the animated version, after every step the obstacle radius is
\* >= 0 and <= the target radius, and so it is at every sampled point of a
\* transition between any two levels, growing or shrinking; and a frame
\* whose obstacle radius is 0 moves the pucks exactly as a frame without
\* obstacles does.
C22_ObstacleRadius ==
    [][/\ RadiusBounded(transition'.currentParamState)
       /\ \A from \in TransitionWins, to \in TransitionWins, e \in TransitionElapsed :
              RadiusBounded(Some([obsScale |-> interpolatedObsScale(easedTime(e, 0), from, to)]))
       /\ ( /\ FrameRan
            /\ transition'.currentParamState # Null
            /\ currentRadius(transition'.currentParamState[1].obsScale) = 0 )
          => \E walls \in {getWallSegmentsAnimated(transition'.currentParamState)} :
                 pucks' = Friction(Physics(pucks, activeTouches, 0, walls, << >>),
                                   activeTouches)]_vars

\* a frame ran while the obstacles of level 5 were growing: two obstacles
\* smaller than the target radius
C22_Witness ==
    /\ ev.op = "frame" /\ ev.did = "ran"
    /\ transition.previousLevel + 1 = 4
    /\ currentLevel + 1 = 5
    /\ Len(getObstaclesAnimated(transition.currentParamState)) = 2
    /\ getObstaclesAnimated(transition.currentParamState)[1].radius > 0
    /\ getObstaclesAnimated(transition.currentParamState)[1].radius < targetRadius

\* ---------------------------------------------------------------- C23
\* C23: checkCapCollision leaves position and velocity finite for every puck
\* closer to the cap centre than the sum of the radii, the centre itself
\* included (safeDist keeps the divisor from being 0).
C23_CapFinite ==
    [][ev'.op \in {"cap", "obstacle"} =>
           /\ pucks'[0].nan = "no"
           /\ ev'.did = "miss" => pucks'[0] = pucks[0]]_vars

\* the cap was resolved for a puck that lay exactly on its centre, and the
\* puck is finite
C23_Witness ==
    /\ ev.op = "cap" /\ ev.did = "hit"
    /\ ev.x = capX /\ ev.y = capY
    /\ pucks[0].nan = "no"

\* ---------------------------------------------------------------- C24
\* what rounding to a model unit may add to or take from a distance
Tolerance == Unit \div 5

\* the distance of the first puck from the cap centre
CapDistance(ps) == Sqrt(Norm2(ps[0].x - capX, ps[0].y - capY))

\* C24: after every cap or obstacle resolution that fired, the puck centre
\* lies at the sum of the radii from the cap centre, whatever its distance
\* was, 0 included.
C24_OverlapRemoved ==
    [][/\ (ev'.op = "cap" /\ ev'.did = "hit") =>
              Abs(CapDistance(pucks') - (halfWallThick + R)) <= Tolerance
       /\ (ev'.op = "obstacle" /\ ev'.did = "hit") =>
              Abs(CapDistance(pucks') - (obstacleRadius + R)) <= Tolerance]_vars

\* ---------------------------------------------------------------- C25
\* C25: no frame leaves a puck with a position or velocity that is not a
\* finite number, whatever the distance of two pucks that no session holds,
\* 0 included.
C25_PairFinite ==
    \A i \in DOMAIN pucks : pucks[i].nan = "no"

\* ---------------------------------------------------------------- C26
\* the distance of the two pucks
PairDistance(ps) == Sqrt(Norm2(ps[1].x - ps[0].x, ps[1].y - ps[0].y))

\* C26: after every ball-to-ball resolution of two pucks that no session
\* holds, their centres are at least 2 * PUCK_RADIUS apart, less the
\* tolerance.
C26_PairSeparated ==
    [][(ev'.op = "pair" /\ ev'.did = "hit") =>
           PairDistance(pucks') >= 2 * R - Tolerance]_vars

\* a pair that overlapped, the second puck 12 px left of and 16 px below the
\* first, has been resolved and is 2 * PUCK_RADIUS apart
C26_Witness ==
    /\ ev.op = "pair" /\ ev.did = "hit"
    /\ pucks[1].x < ev.x /\ pucks[1].y > ev.y
    /\ PairDistance(pucks) >= 2 * R - Tolerance
    /\ PairDistance(pucks) <= 2 * R + Tolerance

\* ---------------------------------------------------------------- C27
\* C27: with no input after the press that started the match, every frame
\* ends with every puck's disc inside the arena:
\* PUCK_RADIUS <= x <= width - PUCK_RADIUS and
\* PUCK_RADIUS <= y <= height - PUCK_RADIUS.
C27_InsideArena ==
    (ev.op = "frame" /\ ev.did = "ran") =>
        \A i \in DOMAIN pucks :
            /\ pucks[i].x >= R /\ pucks[i].x <= W - R
            /\ pucks[i].y >= R /\ pucks[i].y <= H - R

\* ---------------------------------------------------------------- C28
\* vx^2 + vy^2 of a puck
Energy(p) == p.vx * p.vx + p.vy * p.vy

\* a sum of energies is a number not larger than bound: false when a
\* velocity is NaN
NotLarger(ps, set, bound) ==
    /\ \A i \in set : ps[i].nan = "no"
    /\ (IF 0 \in set THEN Energy(ps[0]) ELSE 0) + (IF 1 \in set THEN Energy(ps[1]) ELSE 0)
           <= bound

\* C28: no boundary, wall, cap or obstacle resolution leaves the puck with a
\* larger vx^2 + vy^2 than it had, and no ball-to-ball resolution leaves the
\* two pucks with a larger sum of vx^2 + vy^2 than they had.
C28_EnergyNotIncreased ==
    [][/\ ev'.op \in {"boundary", "wall", "cap", "obstacle"} =>
              NotLarger(pucks', {0}, Energy(pucks[0]))
       /\ ev'.op = "pair" =>
              NotLarger(pucks', {0, 1}, Energy(pucks[0]) + Energy(pucks[1]))]_vars

\* ---------------------------------------------------------------- C29
\* C29: a frame that runs leaves the velocity of every dragged puck as it
\* was and multiplies the velocity of every other puck that meets nothing by
\* FRICTION exactly once, after the sub-steps: the puck has advanced by its
\* unslowed velocity.
C29_FrictionOnce ==
    [][FrameRan =>
           \A i \in DOMAIN pucks :
               IF isDragged(activeTouches, i)
               THEN pucks'[i].vx = pucks[i].vx /\ pucks'[i].vy = pucks[i].vy
               ELSE InOpen(i) =>
                        /\ pucks'[i].vx = Slow(pucks[i].vx)
                        /\ pucks'[i].vy = Slow(pucks[i].vy)
                        /\ pucks'[i].y - pucks[i].y = STEPS * Quot(pucks[i].vy, STEPS)]_vars

\* the second frame after a release at (w/2, 0.05h) has run: the puck has
\* met nothing, friction has slowed it twice, and a session holds another
\* puck
C29_Witness ==
    /\ ev.op = "frame" /\ ev.did = "ran"
    /\ \E i \in DOMAIN pucks :
           /\ ~isDragged(activeTouches, i)
           /\ pucks[i].vx = 0
           /\ pucks[i].vy = Slow(Slow(PullLaunch))
           /\ pucks[i].y = (H * 5) \div 100 + STEPS * Quot(PullLaunch, STEPS)
                               + STEPS * Quot(Slow(PullLaunch), STEPS)
    /\ \E j \in DOMAIN pucks : isDragged(activeTouches, j)

\* ---------------------------------------------------------------- C30
\* every puck is at rest and no session holds one
AllAtRest ==
    /\ pucks # << >>
    /\ activeTouches = Null
    /\ \A i \in DOMAIN pucks : pucks[i].nan = "no" /\ pucks[i].vx = 0 /\ pucks[i].vy = 0

\* C30: a frame that runs while every puck is at rest and none is dragged
\* leaves every puck where it was, at rest; the rosters startGame spawns are
\* such states.
C30_RestIsFixed ==
    [][(FrameRan /\ AllAtRest) => pucks' = pucks]_vars

\* the pucks some session references
DraggedPucks == {i \in DOMAIN pucks : isDragged(activeTouches, i)}

\* C31: a frame changes neither the position nor the velocity of a puck that
\* a drag session references: no integration, no displacement or deflection
\* by an edge, the wall, a cap, an obstacle or another puck, no friction.
C31_DraggedUntouched ==
    [][FrameRan => \A i \in DraggedPucks : pucks'[i] = pucks[i]]_vars

\* a frame has run while a session held a puck beyond the left edge (the edge
\* test would have moved it) and another puck was in motion
C31_Witness ==
    /\ ev.op = "frame" /\ ev.did = "ran"
    /\ \E i \in DraggedPucks : pucks[i].x < R
    /\ \E j \in DOMAIN pucks \ DraggedPucks : pucks[j].vx # 0 \/ pucks[j].vy # 0

\* C32: a puck in simulation that overlaps a dragged puck when a frame runs
\* receives the collision response: the frame pushes it out of the overlap
\* and changes its velocity, so it does not leave the frame as it entered it.
C32_PartnerPushed ==
    [][FrameRan =>
          \A i \in DOMAIN pucks \ DraggedPucks : \A j \in DraggedPucks :
              Touching(pucks[i], pucks[j]) => pucks'[i] # pucks[i]]_vars

\* the wall-segment check fires for the first puck and the left segment
WallFires ==
    LET segment == getWallSegments(now)[1]
    IN  /\ pucks[0].y + R >= wallY - halfWallThick
        /\ pucks[0].y - R <= wallY + halfWallThick
        /\ pucks[0].x >= segment.start
        /\ pucks[0].x <= segment.end

\* C33: when the wall-segment check fires for a puck, the puck ends one pixel
\* outside the band on the side of the midline it was on (top when its y was
\* below height / 2, bottom otherwise), its vy is negated and damped, and its
\* x and vx are as before.
C33_WallKeepsSide ==
    [][(ev'.op = "wall" /\ WallFires) =>
          /\ pucks[0].y < wallY =>
                 /\ pucks'[0].y + R + Unit = wallY - halfWallThick
                 /\ pucks'[0].y < wallY
          /\ pucks[0].y >= wallY =>
                 /\ pucks'[0].y - R - Unit = wallY + halfWallThick
                 /\ pucks'[0].y >= wallY
          /\ pucks'[0].vy = -Quot(pucks[0].vy * BOUNCE_NUM, BOUNCE_DEN)
          /\ pucks'[0].x = pucks[0].x
          /\ pucks'[0].vx = pucks[0].vx
          /\ pucks'[0].nan = "no"]_vars

\* the check has fired for a puck that was in the band below the midline
\* and moving up
C33_Witness ==
    /\ ev.op = "wall" /\ ev.did = "hit"
    /\ ev.y >= wallY
    /\ pucks[0].y - R - Unit = wallY + halfWallThick
    /\ pucks[0].vy > 0

RECURSIVE SubSteps(_, _, _, _, _)
\* the roster after the first n sub-steps of a frame
SubSteps(ps, touches, n, walls, obstacles) ==
    IF n = 0 THEN ps
    ELSE SubStep(SubSteps(ps, touches, n - 1, walls, obstacles), touches, 0,
                 walls, obstacles)

\* x lies within a wall segment of the layout
InSegment(x, walls) == \E k \in DOMAIN walls : x >= walls[k].start /\ x <= walls[k].end

\* puck i, not dragged and with a position before and after, is on one side
\* of the midline in roster a and on the other in roster b, its centre x
\* within a wall segment in both
CrossedThroughWall(a, b, i, walls) ==
    /\ a[i].nan # "xv" /\ b[i].nan # "xv"
    /\ (a[i].y < wallY) # (b[i].y < wallY)
    /\ InSegment(a[i].x, walls)
    /\ InSegment(b[i].x, walls)

\* C34: between two consecutive sub-steps a puck in simulation changes side
\* (its y from below height / 2 to at or above it, or back) only with its
\* centre x in a gap, outside every wall segment of the frame's layout.
C34_CrossOnlyInGap ==
    [][FrameRan =>
          \E walls \in {getWallSegments(now')} :
              \A s \in 0 .. STEPS - 1 :
                  \E a \in {SubSteps(pucks, activeTouches, s, walls, getObstacles)} :
                      \E b \in {SubStep(a, activeTouches, 0, walls, getObstacles)} :
                          \A i \in DOMAIN pucks \ DraggedPucks :
                              ~CrossedThroughWall(a, b, i, walls)]_vars

\* the side of the midline a puck is on, as the tally and handleStart derive it
SideOf(p) == IF p.nan # "xv" /\ p.y < wallY THEN "top" ELSE "bottom"

\* C35: as long as a drag session exists, the side of the midline its puck is
\* on is the side stored in the session.
C35_SessionSide ==
    \A id \in DOMAIN activeTouches :
        SideOf(pucks[activeTouches[id].puckIndex]) = activeTouches[id].side

\* winner names a side exactly when the match is won
WinnerMatches(state, w) ==
    /\ w \in {"null", "top", "bottom"}
    /\ (w \in {"top", "bottom"}) <=> (state = "won")

\* C36: the match state moves start -> playing -> won -> playing -> ... only:
\* it becomes playing by a press only, from start or won; it becomes won by a
\* frame only, from playing; it never becomes start; and winner is top or
\* bottom exactly in state won, null otherwise.
C36_StateCycle ==
    [][/\ gameState' # gameState =>
              \/ gameState \in {"start", "won"} /\ gameState' = "playing" /\ ev'.op = "press"
              \/ gameState = "playing" /\ gameState' = "won" /\ ev'.op = "frame"
       /\ WinnerMatches(gameState, winner)
       /\ WinnerMatches(gameState', winner')]_vars

\* a second match is being played after the first was won
C36_Witness ==
    /\ gameState = "playing"
    /\ winner = "null"
    /\ topWins + bottomWins >= 1
    /\ ev.op = "press" /\ ev.preState = "won"

\* C37: while the match is won no puck changes position or velocity:
\* neither a frame nor a move, release or cancel event of a session that
\* was active when the match was won modifies a puck.
C37_FrozenWhileWon ==
    [][(gameState = "won" /\ gameState' = "won") => pucks' = pucks]_vars

====
